---- MODULE Spec2Model ----
(***************************************************************************)
(* RelayPlane proxy: the budget manager (src/src/budget.ts, BudgetManager), *)
(* the response cache (same file, MemoryLRU and ResponseCache) and the      *)
(* cache-key functions (computeCacheKey, computeAggressiveCacheKey,         *)
(* isDeterministic, ResponseCache.shouldBypass).                            *)
(*                                                                          *)
(* Money is counted in whole units (the source uses IEEE doubles; sums in   *)
(* the model are exact).  Time is a counter: `clock` counts hours for the   *)
(* budget windows, `now` counts ticks for the cache TTLs.                   *)
(***************************************************************************)
EXTENDS Integers, Sequences, FiniteSets, TLC

VARIABLES
    \* ---- BudgetManager ----
    config,              \* this.config: [enabled, onBreach], as constructed
                         \* (the limits are the definitions DailyUsd, ...)
    db,                  \* this.db !== null
    initialized,         \* this._initialized
    dailySpendCache,     \* this.dailySpendCache
    hourlySpendCache,    \* this.hourlySpendCache
    cachedDailyWindow,   \* this.cachedDailyWindow (NoWindow is '')
    cachedHourlyWindow,  \* this.cachedHourlyWindow
    firedThresholds,     \* this.firedThresholds: set of <<dailyWindow, threshold>>
    pendingWrites,       \* this.pendingWrites: Seq of SpendRecord
    flushTimer,          \* this.flushTimer !== null
    spend_log,           \* the rows of table spend_log in budget.db
    clock,               \* the wall clock, in hours
    ret,                 \* what the call that has just completed returned
    obs,                 \* history: the last checkBudget observation and the spend
                         \* recorded since
    marks,               \* history: the thresholds markThresholdFired was called
                         \* with during the current day and on earlier days
    \* ---- ResponseCache ----
    cacheConfig,         \* this.config: [enabled, mode, onlyWhenDeterministic]
    cacheDb,             \* this.db !== null
    cacheInitialized,    \* this._initialized
    memory,              \* this.memory: the MemoryLRU [entries, currentSizeBytes]
    cache_entries,       \* table cache_entries of index.db: hash -> expires_at
    files,               \* responsesDir: hash -> the content of <hash>.gz
    dirExists,           \* responsesDir exists on disk
    now,                 \* Date.now(), in ticks
    cret,                \* the last cache call and what it returned
    \* ---- cache keys ----
    req0,                \* a request body as the client first sent it
    req,                 \* the request body the client sends now
    normalizeOnly,       \* req is req0 with object keys reordered and ignored
                         \* fields removed, and nothing else changed
    kret,                \* the last key call and what it returned
    \* ---- AlertManager ----
    alertConfig,         \* this.config: [enabled, webhookUrl, cooldownMs, maxHistory]
    alertDb,             \* this.db !== null
    alertInitialized,    \* this._initialized
    dedup,               \* this.dedup: dedup key -> last fired timestamp
    memoryAlerts,        \* this.memoryAlerts
    alertCounter,        \* this.alertCounter
    alerts,              \* the rows of table alerts in alerts.db, in rowid order
    fetches,             \* the webhook POSTs that have not settled: alert ids
    alertNow,            \* Date.now(), in milliseconds
    aret,                \* the last alert call and what it returned
    lastAlert,           \* history: dedup key -> when this manager last created
                         \* an alert for it
    created,             \* history: the ids of the alerts created in this process
    \* ---- AnomalyDetector ----
    anomalyConfig,       \* this.config: [enabled, repetitionThreshold, ...]
    buffer,              \* this.buffer
    minuteBuckets,       \* this.minuteBuckets: minute -> requests
    anomalyNow,          \* Date.now(), in milliseconds
    anret,               \* the last detector call and what it returned
    \* ---- checkDowngrade ----
    dret,                \* the last checkDowngrade calls and what they returned
    \* ---- the components around the budget, cache and alert layer: each
    \* is one record of its fields, or Unloaded where it is not in use ----
    configDir,           \* the config module: the files of ~/.relayplane, the
                         \* clock, the device ids drawn and the last call
    tracker,             \* the provider cooldown tracker, its router and clock
    cascadeRun,          \* routing.cascade and the request it is serving
    pipeline,            \* the orchestrator: the request in hand and its progress
    limiter,             \* the RateLimiter, its clock and its last call
    mesh                 \* the knowledge mesh: the atoms table of mesh.db, the
                         \* syncs in flight and what the endpoint accepted

budgetVars == <<config, db, initialized, dailySpendCache, hourlySpendCache,
                cachedDailyWindow, cachedHourlyWindow, firedThresholds,
                pendingWrites, flushTimer, spend_log, clock, ret, obs, marks>>

cacheVars == <<cacheConfig, cacheDb, cacheInitialized, memory, cache_entries,
               files, dirExists, now, cret>>

keyVars == <<req0, req, normalizeOnly, kret>>

alertVars == <<alertConfig, alertDb, alertInitialized, dedup, memoryAlerts,
               alertCounter, alerts, fetches, alertNow, aret, lastAlert, created>>

anomalyVars == <<anomalyConfig, buffer, minuteBuckets, anomalyNow, anret>>

downgradeVars == <<dret>>

configVars == <<configDir>>

\* the components of the budget, cache and alert layer
coreVars == <<budgetVars, cacheVars, keyVars, alertVars, anomalyVars, downgradeVars>>

\* the components around it
cooldownVars == <<tracker>>

cascadeVars == <<cascadeRun>>

pipelineVars == <<pipeline>>

limiterVars == <<limiter>>

meshVars == <<mesh>>

restVars == <<configVars, cooldownVars, cascadeVars, pipelineVars, limiterVars,
              meshVars>>

vars == <<coreVars, restVars>>

\* what the operations of one component leave alone
notBudget == <<cacheVars, keyVars, alertVars, anomalyVars, downgradeVars,
               restVars>>
notCache == <<budgetVars, keyVars, alertVars, anomalyVars, downgradeVars,
               restVars>>
notKeys == <<budgetVars, cacheVars, alertVars, anomalyVars, downgradeVars,
               restVars>>
notAlerts == <<budgetVars, cacheVars, keyVars, anomalyVars, downgradeVars,
               restVars>>
notAnomaly == <<budgetVars, cacheVars, keyVars, alertVars, downgradeVars,
               restVars>>
notDowngrade == <<budgetVars, cacheVars, keyVars, alertVars, anomalyVars,
               restVars>>
notConfig == <<coreVars, cooldownVars, cascadeVars, pipelineVars, limiterVars,
               meshVars>>
notCooldown == <<coreVars, configVars, cascadeVars, pipelineVars, limiterVars,
                 meshVars>>
notCascade == <<coreVars, configVars, cooldownVars, pipelineVars, limiterVars,
                meshVars>>
notPipeline == <<coreVars, configVars, cooldownVars, cascadeVars, limiterVars,
                 meshVars>>
notLimiter == <<coreVars, configVars, cooldownVars, cascadeVars, pipelineVars,
                meshVars>>
notMesh == <<coreVars, configVars, cooldownVars, cascadeVars, pipelineVars,
             limiterVars>>

----------------------------------------------------------------------------
(* Bounds of the model *)

MaxClock == 2          \* the clock runs over hours 0..MaxClock
HoursPerDay == 2       \* hours in one daily window of the model's clock
MaxSpend == 4          \* recordSpend is not called once a cache would pass this
MaxRows == 2           \* spend records alive in the log and the queue together
DailyUsd == 3          \* config.dailyUsd
HourlyUsd == 2         \* config.hourlyUsd
PerRequestUsd == 1     \* config.perRequestUsd

NoWindow == -1         \* the empty string '' of cachedDailyWindow / cachedHourlyWindow
NoCost == -1           \* checkBudget() called without estimatedCost

OnBreach == {"block", "warn"}       \* of 'block' | 'warn' | 'downgrade' | 'alert'
AlertThresholds == <<30>>       \* config.alertThresholds, ascending percentages
Amounts == {1, 2}               \* the amounts recordSpend is called with

----------------------------------------------------------------------------
(* The parts of the state a specification leaves alone *)

\* an empty table, an empty directory
NoRows == [x \in {} |-> 0]

\* the response cache, not constructed
CacheIdle ==
    /\ cacheConfig = [enabled |-> FALSE, mode |-> "exact",
                      onlyWhenDeterministic |-> TRUE]
    /\ cacheDb = FALSE
    /\ cacheInitialized = FALSE
    /\ memory = [entries |-> <<>>, currentSizeBytes |-> 0]
    /\ cache_entries = NoRows
    /\ files = NoRows
    /\ dirExists = FALSE
    /\ now = 0
    /\ cret = [op |-> "new"]

\* no request body has been keyed
KeyIdle ==
    /\ req0 = <<>>
    /\ req = <<>>
    /\ normalizeOnly = TRUE
    /\ kret = [op |-> "new"]

\* the alert manager, constructed with DEFAULT_ALERTS_CONFIG and not used
AlertIdle ==
    /\ alertConfig = [enabled |-> FALSE, webhookUrl |-> FALSE, cooldownMs |-> 0,
                      maxHistory |-> 0]
    /\ alertDb = FALSE
    /\ alertInitialized = FALSE
    /\ dedup = NoRows
    /\ memoryAlerts = <<>>
    /\ alertCounter = 0
    /\ alerts = <<>>
    /\ fetches = {}
    /\ alertNow = 0
    /\ aret = [op |-> "new"]
    /\ lastAlert = NoRows
    /\ created = <<>>

\* the anomaly detector, constructed with DEFAULT_ANOMALY_CONFIG and not used
AnomalyIdle ==
    /\ anomalyConfig = [enabled |-> FALSE]
    /\ buffer = <<>>
    /\ minuteBuckets = NoRows
    /\ anomalyNow = 0
    /\ anret = [op |-> "new"]

\* checkDowngrade has not been called
DowngradeIdle == dret = [op |-> "new"]

\* the components that take no part in a specification
KeysAndAlertsIdle == KeyIdle /\ AlertIdle /\ AnomalyIdle /\ DowngradeIdle

\* the budget manager, constructed with DEFAULT_BUDGET_CONFIG and not used
BudgetIdle ==
    /\ config = [enabled |-> FALSE, onBreach |-> "downgrade"]
    /\ db = FALSE
    /\ initialized = FALSE
    /\ dailySpendCache = 0
    /\ hourlySpendCache = 0
    /\ cachedDailyWindow = -1
    /\ cachedHourlyWindow = -1
    /\ firedThresholds = {}
    /\ pendingWrites = <<>>
    /\ flushTimer = FALSE
    /\ spend_log = <<>>
    /\ clock = 0
    /\ ret = [op |-> "new"]
    /\ obs = [valid |-> FALSE, expected |-> 0, n |-> 0]
    /\ marks = [all |-> {}, kept |-> {}, before |-> {}]

\* a file of the configuration directory: absent, not JSON, or a JSON object
Missing == [kind |-> "missing"]
Corrupt == [kind |-> "corrupt"]
Json(value) == [kind |-> "json", value |-> value]

\* a component that is not in use
Unloaded == <<>>

\* ---- the fields of the config module ----
configFile == configDir.configFile   \* ~/.relayplane/config.json
backupFile == configDir.backupFile   \* ~/.relayplane/config.json.bak
credFile == configDir.credFile       \* ~/.relayplane/credentials.json
cfgNow == configDir.cfgNow           \* new Date(), in ticks
nextDevice == configDir.nextDevice   \* the device ids generateDeviceId has drawn
cfret == configDir.cfret             \* the last config call, what it returned
                                     \* and wrote

\* ---- the fields of the provider cooldown tracker ----
cooldowns == tracker.cooldowns   \* provider -> [failures, cooledUntil]
inflight == tracker.inflight     \* the provider the router has forwarded a
                                 \* request to
cdNow == tracker.cdNow           \* the clock of the tracker, in seconds
cdret == tracker.cdret           \* the last tracker call and what it returned
tripped == tracker.tripped       \* history: provider -> when its quarantine
                                 \* last began
failLog == tracker.failLog       \* history: provider -> the times of its
                                 \* failures since its last success

\* ---- the fields of cascade routing ----
cascadeConfig == cascadeRun.cascadeConfig   \* routing.cascade: [models,
                                            \* escalateOn, maxEscalations]
cascade == cascadeRun.cascade               \* the request's [state, idx,
                                            \* escalations]

\* ---- the fields of the pipeline orchestrator ----
request == pipeline.request   \* what the stages will find for the request
pipe == pipeline.pipe         \* the request's [stage, status, body, by, upstream]

\* ---- the fields of the knowledge mesh ----
atoms == mesh.atoms         \* the atoms table: id -> synced
syncs == mesh.syncs         \* caller -> the [pc, toSync] of its pushToMesh
accepted == mesh.accepted   \* history: id -> the pushes holding the atom that
                            \* the endpoint accepted

\* ---- the fields of the RateLimiter ----
rateBuckets == limiter.rateBuckets   \* this.buckets: [workspace, modelKey,
                                     \* minute] -> [count, resetAt]
lastCleanup == limiter.lastCleanup   \* this.lastCleanup
limNow == limiter.limNow             \* Date.now(), in milliseconds
lret == limiter.lret                 \* the last limiter call and what it returned
granted == limiter.granted           \* history: [workspace, model, minute] ->
                                     \* the calls answered allowed=true since
                                     \* the last resetLimit

ConfigIdle == configDir = Unloaded

CoreIdle ==
    /\ BudgetIdle /\ CacheIdle /\ KeyIdle
    /\ AlertIdle /\ AnomalyIdle /\ DowngradeIdle

CooldownIdle == tracker = Unloaded

CascadeIdle == cascadeRun = Unloaded

PipelineIdle == pipeline = Unloaded

LimiterIdle == limiter = Unloaded

MeshIdle == mesh = Unloaded

RestIdle ==
    /\ ConfigIdle /\ CooldownIdle /\ CascadeIdle /\ PipelineIdle /\ LimiterIdle
    /\ MeshIdle

----------------------------------------------------------------------------
(* Window helpers *)

getDailyWindow(t) == t \div HoursPerDay
getHourlyWindow(t) == t

RECURSIVE SumWhere(_, _, _)
\* SELECT COALESCE(SUM(amount), 0) FROM rows WHERE <field> = w
SumWhere(rows, field, w) ==
    IF rows = <<>> THEN 0
    ELSE (IF Head(rows)[field] = w THEN Head(rows).amount ELSE 0)
         + SumWhere(Tail(rows), field, w)

----------------------------------------------------------------------------
(* BudgetManager private helpers, as functions of the current state *)

\* a variant that carries the totals over into the new window
ensureCacheWindowsKeepTotals ==
    LET dw == getDailyWindow(clock)
        hw == getHourlyWindow(clock)
    IN  [ cachedDailyWindow  |-> dw,
          dailySpendCache    |-> dailySpendCache,
          firedThresholds    |->
              IF dw # cachedDailyWindow THEN {} ELSE firedThresholds,
          cachedHourlyWindow |-> hw,
          hourlySpendCache   |-> hourlySpendCache,
          selects            |-> {} ]

\* ensureCacheWindows(): the values of the five fields it may assign, and the
\* queries it runs
ensureCacheWindows ==
    LET dw == getDailyWindow(clock)
        hw == getHourlyWindow(clock)
    IN  [ cachedDailyWindow  |-> dw,
          dailySpendCache    |->
              IF dw # cachedDailyWindow
              THEN (IF db THEN SumWhere(spend_log, "dailyWindow", dw) ELSE 0)
              ELSE dailySpendCache,
          firedThresholds    |->
              IF dw # cachedDailyWindow THEN {} ELSE firedThresholds,
          cachedHourlyWindow |-> hw,
          hourlySpendCache   |->
              IF hw # cachedHourlyWindow
              THEN (IF db THEN SumWhere(spend_log, "hourlyWindow", hw) ELSE 0)
              ELSE hourlySpendCache,
          \* the SELECTs it has run on this.db
          selects            |->
              { w \in {"daily"} : db /\ dw # cachedDailyWindow }
                  \cup { w \in {"hourly"} : db /\ hw # cachedHourlyWindow } ]

\* refreshCache(): both cached keys are set to '' and ensureCacheWindows runs
refreshCache ==
    LET dw == getDailyWindow(clock)
        hw == getHourlyWindow(clock)
    IN  [ cachedDailyWindow  |-> dw,
          dailySpendCache    |-> SumWhere(spend_log, "dailyWindow", dw),
          firedThresholds    |-> {},
          cachedHourlyWindow |-> hw,
          hourlySpendCache   |-> SumWhere(spend_log, "hourlyWindow", hw) ]

ApplyWindows(e) ==
    /\ cachedDailyWindow' = e.cachedDailyWindow
    /\ cachedHourlyWindow' = e.cachedHourlyWindow
    /\ firedThresholds' = e.firedThresholds

\* a flush whose first INSERT is skipped
FlushedLogSkipsFirst(k) ==
    IF ~db \/ pendingWrites = <<>> THEN spend_log
    ELSE spend_log \o SubSeq(pendingWrites, 2, k)

\* flushPendingWrites(): the log after the flush.  The INSERTs run in queue
\* order inside one try block; k is the number that succeed before one throws
\* (k = Len(pendingWrites) when none throws).
FlushedLog(k) ==
    IF ~db \/ pendingWrites = <<>> THEN spend_log
    ELSE spend_log \o SubSeq(pendingWrites, 1, k)

\* a flush that leaves the queue as it is
QueueLeftAsItIs == pendingWrites

\* flushPendingWrites(): the queue after the flush (splice(0) empties it)
FlushedQueue ==
    IF ~db \/ pendingWrites = <<>> THEN pendingWrites ELSE <<>>

----------------------------------------------------------------------------
(* checkBudget *)

\* a thresholds loop that does not look at firedThresholds
ThresholdsCrossedEveryTime(daily, dwin, fired) ==
    { AlertThresholds[i] : i \in
        { j \in DOMAIN AlertThresholds :
            daily * 100 >= AlertThresholds[j] * DailyUsd } }

\* a thresholds loop with the comparison turned round: pct <= threshold
ThresholdsCrossedWhenBelow(daily, dwin, fired) ==
    { AlertThresholds[i] : i \in
        { j \in DOMAIN AlertThresholds :
            /\ daily * 100 <= AlertThresholds[j] * DailyUsd
            /\ <<dwin, AlertThresholds[j]>> \notin fired } }

\* the thresholds loop of checkBudget: pct >= threshold and not yet fired.
\* pct = daily / dailyUsd * 100 >= t is compared as daily * 100 >= t * dailyUsd.
ThresholdsCrossed(daily, dwin, fired) ==
    { AlertThresholds[i] : i \in
        { j \in DOMAIN AlertThresholds :
            /\ daily * 100 >= AlertThresholds[j] * DailyUsd
            /\ <<dwin, AlertThresholds[j]>> \notin fired } }

\* a breach result that also refuses the request under 'warn'
BreachBlocksOnWarn(onBreach, type, daily, hourly) ==
    [ allowed |-> onBreach \notin {"block", "warn"}, breached |-> TRUE,
      breachType |-> type, action |-> onBreach, currentDailySpend |-> daily,
      currentHourlySpend |-> hourly, thresholdsCrossed |-> {} ]

\* the object each of the three breach returns of checkBudget builds
Breach(onBreach, type, daily, hourly) ==
    [ allowed |-> onBreach # "block", breached |-> TRUE, breachType |-> type,
      action |-> onBreach, currentDailySpend |-> daily,
      currentHourlySpend |-> hourly, thresholdsCrossed |-> {} ]

\* a checkBudget that tests the daily limit before the hourly one
BudgetCheckResultDailyFirst(e, onBreach, est) ==
    IF est # NoCost /\ est > PerRequestUsd
    THEN Breach(onBreach, "per-request", e.dailySpendCache, e.hourlySpendCache)
    ELSE IF e.dailySpendCache >= DailyUsd
    THEN Breach(onBreach, "daily", e.dailySpendCache, e.hourlySpendCache)
    ELSE IF e.hourlySpendCache >= HourlyUsd
    THEN Breach(onBreach, "hourly", e.dailySpendCache, e.hourlySpendCache)
    ELSE [ allowed |-> TRUE, breached |-> FALSE, breachType |-> "none",
           action |-> "allow", currentDailySpend |-> e.dailySpendCache,
           currentHourlySpend |-> e.hourlySpendCache,
           thresholdsCrossed |->
               ThresholdsCrossed(e.dailySpendCache, e.cachedDailyWindow,
                                 e.firedThresholds) ]

\* the result of checkBudget(est) on an enabled manager, after
\* ensureCacheWindows has produced e
BudgetCheckResult(e, onBreach, est) ==
    IF est # NoCost /\ est > PerRequestUsd
    THEN Breach(onBreach, "per-request", e.dailySpendCache, e.hourlySpendCache)
    ELSE IF e.hourlySpendCache >= HourlyUsd
    THEN Breach(onBreach, "hourly", e.dailySpendCache, e.hourlySpendCache)
    ELSE IF e.dailySpendCache >= DailyUsd
    THEN Breach(onBreach, "daily", e.dailySpendCache, e.hourlySpendCache)
    ELSE [ allowed |-> TRUE, breached |-> FALSE, breachType |-> "none",
           action |-> "allow", currentDailySpend |-> e.dailySpendCache,
           currentHourlySpend |-> e.hourlySpendCache,
           thresholdsCrossed |->
               ThresholdsCrossed(e.dailySpendCache, e.cachedDailyWindow,
                                 e.firedThresholds) ]

\* the result of checkBudget on a disabled manager
DisabledResult ==
    [ allowed |-> TRUE, breached |-> FALSE, breachType |-> "none",
      action |-> "allow", currentDailySpend |-> 0, currentHourlySpend |-> 0,
      thresholdsCrossed |-> {} ]

\* history kept beside the result: the configuration the call ran under and
\* what the spend recorded since the previous checkBudget adds up to
Observed(r, est, selects) ==
    [ op |-> "checkBudget", result |-> r, est |-> est,
      expectValid |-> obs.valid, expected |-> obs.expected,
      recorded |-> obs.n, selects |-> selects ]

NoObs == [valid |-> FALSE, expected |-> 0, n |-> 0]

\* no markThresholdFired call yet.  all: the thresholds marked during the
\* current day; kept: those of them marked while cachedDailyWindow was the
\* current day, with no reset() and no init() since; before: the thresholds
\* marked on an earlier day
NoMarks == [all |-> {}, kept |-> {}, before |-> {}]

CheckBudget(est) ==
    /\ IF ~config.enabled
       THEN /\ ret' = Observed(DisabledResult, est, {})
            /\ obs' = NoObs
            /\ UNCHANGED <<dailySpendCache, hourlySpendCache, cachedDailyWindow,
                           cachedHourlyWindow, firedThresholds>>
       ELSE LET e == ensureCacheWindows
                r == BudgetCheckResult(e, config.onBreach, est)
            IN  /\ ApplyWindows(e)
                /\ dailySpendCache' = e.dailySpendCache
                /\ hourlySpendCache' = e.hourlySpendCache
                /\ ret' = Observed(r, est, e.selects)
                /\ obs' = [valid |-> TRUE, expected |-> r.currentDailySpend,
                           n |-> 0]
    /\ UNCHANGED <<notBudget, marks, config, db, initialized, pendingWrites, flushTimer,
                   spend_log, clock>>

----------------------------------------------------------------------------
(* recordSpend *)

\* recordSpend that adds the amount to the hourly total only
SpendCachesHourlyOnly(e, amount) ==
    [ dailySpendCache  |-> e.dailySpendCache,
      hourlySpendCache |-> e.hourlySpendCache + amount ]

\* the two += of recordSpend, applied to the caches ensureCacheWindows left
SpendCaches(e, amount) ==
    [ dailySpendCache  |-> e.dailySpendCache + amount,
      hourlySpendCache |-> e.hourlySpendCache + amount ]

\* the SpendRecord queued by recordSpend (model and timestamp are not read by
\* any query and are left out)
SpendRecord(e, amount) ==
    [ amount |-> amount, dailyWindow |-> e.cachedDailyWindow,
      hourlyWindow |-> e.cachedHourlyWindow ]

RecordSpend(amount) ==
    /\ Len(spend_log) + Len(pendingWrites) < MaxRows
    /\ IF ~config.enabled
       THEN /\ obs' = NoObs
            /\ UNCHANGED <<dailySpendCache, hourlySpendCache, cachedDailyWindow,
                           cachedHourlyWindow, firedThresholds, pendingWrites,
                           flushTimer>>
       ELSE LET e == ensureCacheWindows
                c == SpendCaches(e, amount)
            IN  /\ c.dailySpendCache <= MaxSpend
                /\ c.hourlySpendCache <= MaxSpend
                /\ ApplyWindows(e)
                /\ dailySpendCache' = c.dailySpendCache
                /\ hourlySpendCache' = c.hourlySpendCache
                /\ pendingWrites' = Append(pendingWrites, SpendRecord(e, amount))
                /\ flushTimer' = TRUE    \* scheduleFlush()
                /\ obs' = IF obs.valid
                          THEN [obs EXCEPT !.expected = @ + amount, !.n = @ + 1]
                          ELSE obs
    /\ ret' = [op |-> "recordSpend", amount |-> amount]
    /\ UNCHANGED <<notBudget, marks, config, db, initialized, spend_log, clock>>

----------------------------------------------------------------------------
(* markThresholdFired, getStatus, reset *)

MarkThresholdFired(t) ==
    /\ firedThresholds' = firedThresholds \cup {<<cachedDailyWindow, t>>}
    /\ ret' = [op |-> "markThresholdFired", threshold |-> t]
    /\ obs' = NoObs
    /\ marks' = [marks EXCEPT
                    !.all = @ \cup {t},
                    !.kept = IF cachedDailyWindow = getDailyWindow(clock)
                             THEN @ \cup {t} ELSE @]
    /\ UNCHANGED <<notBudget, config, db, initialized, dailySpendCache, hourlySpendCache,
                   cachedDailyWindow, cachedHourlyWindow, pendingWrites,
                   flushTimer, spend_log, clock>>

\* the BudgetStatus getStatus returns (the percentages are left out)
BudgetStatus(e) ==
    LET breachType == IF e.hourlySpendCache >= HourlyUsd THEN "hourly"
                      ELSE IF e.dailySpendCache >= DailyUsd THEN "daily"
                      ELSE "none"
    IN  [ op |-> "getStatus",
          dailySpend |-> e.dailySpendCache, hourlySpend |-> e.hourlySpendCache,
          dailyWindow |-> e.cachedDailyWindow,
          hourlyWindow |-> e.cachedHourlyWindow,
          breached |-> breachType # "none", breachType |-> breachType ]

GetStatus ==
    LET e == ensureCacheWindows
    IN  /\ ApplyWindows(e)
        /\ dailySpendCache' = e.dailySpendCache
        /\ hourlySpendCache' = e.hourlySpendCache
        /\ ret' = BudgetStatus(e)
        /\ UNCHANGED <<notBudget, marks, config, db, initialized, pendingWrites, flushTimer,
                       spend_log, clock, obs>>

\* DELETE FROM spend_log WHERE daily_window = dw
DeleteDaily(rows, dw) == SelectSeq(rows, LAMBDA r : r.dailyWindow # dw)

Reset ==
    /\ dailySpendCache' = 0
    /\ hourlySpendCache' = 0
    /\ firedThresholds' = {}
    /\ IF db
       THEN /\ spend_log' = DeleteDaily(spend_log, getDailyWindow(clock))
            /\ cachedDailyWindow' = getDailyWindow(clock)
            /\ cachedHourlyWindow' = getHourlyWindow(clock)
       ELSE UNCHANGED <<spend_log, cachedDailyWindow, cachedHourlyWindow>>
    /\ ret' = [op |-> "reset"]
    /\ obs' = NoObs
    /\ marks' = [marks EXCEPT !.kept = {}]
    /\ UNCHANGED <<notBudget, config, db, initialized, pendingWrites, flushTimer, clock>>

----------------------------------------------------------------------------
(* init, the flush timer, close, and the passing of time *)

\* init(): ok is whether better-sqlite3 opens budget.db
InitDb(ok) ==
    /\ ~initialized
    /\ config.enabled
    /\ initialized' = TRUE
    /\ IF ok
       THEN LET e == refreshCache
            IN  /\ db' = TRUE
                /\ ApplyWindows(e)
                /\ dailySpendCache' = e.dailySpendCache
                /\ hourlySpendCache' = e.hourlySpendCache
       ELSE UNCHANGED <<db, dailySpendCache, hourlySpendCache, cachedDailyWindow,
                        cachedHourlyWindow, firedThresholds>>
    /\ ret' = [op |-> "init"]
    /\ obs' = NoObs
    /\ marks' = IF ok THEN [marks EXCEPT !.kept = {}] ELSE marks
    /\ UNCHANGED <<notBudget, config, pendingWrites, flushTimer, spend_log, clock>>

\* how many INSERTs of a flush may succeed
FlushOutcomes ==
    IF ~db \/ pendingWrites = <<>> THEN {0} ELSE 0..Len(pendingWrites)

\* the setTimeout callback of scheduleFlush
TimerFlush(k) ==
    /\ flushTimer
    /\ flushTimer' = FALSE
    /\ spend_log' = FlushedLog(k)
    /\ pendingWrites' = FlushedQueue
    /\ UNCHANGED <<notBudget, marks, config, db, initialized, dailySpendCache, hourlySpendCache,
                   cachedDailyWindow, cachedHourlyWindow, firedThresholds,
                   clock, obs>>
    /\ ret' = [op |-> "timer"]

Close(k) ==
    /\ spend_log' = FlushedLog(k)
    /\ pendingWrites' = FlushedQueue
    /\ flushTimer' = FALSE
    /\ db' = FALSE
    /\ ret' = [op |-> "close", inserted |-> k,
               pre |-> [db |-> db, pendingWrites |-> pendingWrites,
                        spend_log |-> spend_log, flushTimer |-> flushTimer]]
    /\ obs' = NoObs
    /\ UNCHANGED <<notBudget, marks, config, initialized, dailySpendCache, hourlySpendCache,
                   cachedDailyWindow, cachedHourlyWindow, firedThresholds, clock>>

\* an hour passes; a new day ends the run of calls obs accounts for
Tick ==
    /\ clock < MaxClock
    /\ clock' = clock + 1
    /\ obs' = IF getDailyWindow(clock + 1) # getDailyWindow(clock)
              THEN NoObs ELSE obs
    /\ marks' = IF getDailyWindow(clock + 1) # getDailyWindow(clock)
                THEN [all |-> {}, kept |-> {},
                      before |-> marks.before \cup marks.all]
                ELSE marks
    /\ UNCHANGED <<notBudget, config, db, initialized, dailySpendCache, hourlySpendCache,
                   cachedDailyWindow, cachedHourlyWindow, firedThresholds,
                   pendingWrites, flushTimer, spend_log>>
    /\ ret' = [op |-> "tick"]

----------------------------------------------------------------------------
(* The budget manager as a state machine *)

Configs == [enabled : BOOLEAN, onBreach : OnBreach]

\* rows an earlier process may have left in budget.db
EarlierLogs ==
    { <<>>, <<[amount |-> 1, dailyWindow |-> 0, hourlyWindow |-> 0]>> }

Init ==
    /\ config \in Configs
    /\ db = FALSE
    /\ initialized = FALSE
    /\ dailySpendCache = 0
    /\ hourlySpendCache = 0
    /\ cachedDailyWindow = NoWindow
    /\ cachedHourlyWindow = NoWindow
    /\ firedThresholds = {}
    /\ pendingWrites = <<>>
    /\ flushTimer = FALSE
    /\ spend_log \in EarlierLogs
    /\ clock = 0
    /\ ret = [op |-> "new"]
    /\ obs = NoObs
    /\ marks = NoMarks
    /\ CacheIdle
    /\ KeysAndAlertsIdle
    /\ RestIdle

Next ==
    \/ \E est \in {NoCost, PerRequestUsd + 1} : CheckBudget(est)
    \/ \E amount \in Amounts : RecordSpend(amount)
    \/ \E i \in DOMAIN AlertThresholds : MarkThresholdFired(AlertThresholds[i])
    \/ GetStatus
    \/ Reset
    \/ \E ok \in BOOLEAN : InitDb(ok)
    \/ \E k \in FlushOutcomes : TimerFlush(k)
    \/ \E k \in FlushOutcomes : Close(k)
    \/ Tick

Spec == Init /\ [][Next]_vars

----------------------------------------------------------------------------
(* Properties of the budget manager *)

\* C1: while the manager holds its durable store, the in-memory daily spend
\* plus the queued amounts of the current daily window is at least the sum of
\* the spend_log rows of that window.
C1_MemoryLeadsDurable ==
    db => dailySpendCache
            + SumWhere(pendingWrites, "dailyWindow", getDailyWindow(clock))
          >= SumWhere(spend_log, "dailyWindow", getDailyWindow(clock))

\* C2: on an enabled manager, a checkBudget that follows an earlier checkBudget
\* with only recordSpend, checkBudget and getStatus calls in between and no
\* daily rollover reports currentDailySpend = the earlier report + the sum of
\* the amounts recorded in between.
C2_RecordSpendObserved ==
    (ret.op = "checkBudget" /\ ret.expectValid)
        => ret.result.currentDailySpend = ret.expected

\* C2 witness: a checkBudget that follows two recordSpend calls
C2_Witness ==
    /\ ret.op = "checkBudget"
    /\ ret.expectValid
    /\ ret.recorded >= 2
    /\ ret.result.currentDailySpend >= 2

\* C3: allowed is false exactly on a breach under onBreach = 'block'; a breach
\* returns action = onBreach; no breach returns allowed with action 'allow'.
C3_ActionFollowsOnBreach ==
    ret.op = "checkBudget" =>
        LET r == ret.result
        IN  /\ (r.allowed = FALSE) <=> (r.breached /\ config.onBreach = "block")
            /\ r.breached => r.action = config.onBreach
            /\ ~r.breached => (r.allowed /\ r.action = "allow")

\* C3 witness: a daily breach under 'warn', which is let through
C3_Witness ==
    /\ ret.op = "checkBudget"
    /\ ret.result.breached
    /\ ret.result.breachType = "daily"
    /\ config.onBreach = "warn"
    /\ ret.result.allowed

\* the configured thresholds, as a set
ThresholdSet == { AlertThresholds[i] : i \in DOMAIN AlertThresholds }

\* daily utilization of a checkBudget result meets or exceeds threshold t
UtilizationAtLeast(r, t) == r.currentDailySpend * 100 >= t * DailyUsd

C20_CloseWritesEveryRecord ==
    ret.op = "close" =>
        /\ pendingWrites = <<>>
        /\ spend_log = ret.pre.spend_log \o ret.pre.pendingWrites
        /\ ~flushTimer

\* C20, amended: when close() returns the flush timer is cancelled and the
\* store is closed.  If the store was open, the queue is empty and spend_log
\* has gained the queued records in order, all of them unless an INSERT threw,
\* in which case that record and the ones after it are dropped.  If the store
\* was not open (memory-only mode), nothing is written and the queue is left
\* as it was.
C20_CloseFlushesIntoOpenStore ==
    ret.op = "close" =>
        /\ ~flushTimer
        /\ ~db
        /\ IF ret.pre.db
           THEN /\ pendingWrites = <<>>
                /\ spend_log = ret.pre.spend_log
                                 \o SubSeq(ret.pre.pendingWrites, 1, ret.inserted)
           ELSE /\ pendingWrites = ret.pre.pendingWrites
                /\ spend_log = ret.pre.spend_log

\* C20 witness: close() found the store open, two records queued and the
\* flush timer still pending, and wrote both
C20_Witness ==
    /\ ret.op = "close"
    /\ ret.pre.db
    /\ ret.pre.flushTimer
    /\ Len(ret.pre.pendingWrites) = 2
    /\ ret.inserted = 2
    /\ spend_log = ret.pre.spend_log \o ret.pre.pendingWrites

\* C28: when several limits are breached at once, checkBudget reports one
\* breachType, chosen in the order per-request (estimatedCost given and above
\* perRequestUsd), hourly, daily; getStatus reports hourly before daily.
C28_BreachTypeInFixedOrder ==
    /\ (ret.op = "checkBudget" /\ config.enabled) =>
          LET r == ret.result
          IN  r.breachType =
                IF ret.est # NoCost /\ ret.est > PerRequestUsd THEN "per-request"
                ELSE IF r.currentHourlySpend >= HourlyUsd THEN "hourly"
                ELSE IF r.currentDailySpend >= DailyUsd THEN "daily"
                ELSE "none"
    /\ ret.op = "getStatus" =>
          ret.breachType =
            IF ret.hourlySpend >= HourlyUsd THEN "hourly"
            ELSE IF ret.dailySpend >= DailyUsd THEN "daily"
            ELSE "none"

\* the hourly and the daily limit are breached together and checkBudget, asked
\* without an estimate, reports the hourly one
C28_Witness ==
    /\ ret.op = "checkBudget"
    /\ ret.est = NoCost
    /\ ret.result.currentHourlySpend >= HourlyUsd
    /\ ret.result.currentDailySpend >= DailyUsd
    /\ ret.result.breachType = "hourly"

\* what a call that adds `added` to the totals leaves in the cache
ReloadedOnChange(added) ==
    LET dw == getDailyWindow(clock)
        hw == getHourlyWindow(clock)
    IN  /\ cachedDailyWindow' = dw
        /\ cachedHourlyWindow' = hw
        /\ dailySpendCache' = added +
              (IF cachedDailyWindow = dw THEN dailySpendCache
               ELSE IF db THEN SumWhere(spend_log, "dailyWindow", dw) ELSE 0)
        /\ hourlySpendCache' = added +
              (IF cachedHourlyWindow = hw THEN hourlySpendCache
               ELSE IF db THEN SumWhere(spend_log, "hourlyWindow", hw) ELSE 0)
        /\ cachedDailyWindow # dw =>
              \A i \in 1..Len(pendingWrites) : pendingWrites[i].dailyWindow # dw
        /\ cachedHourlyWindow # hw =>
              \A i \in 1..Len(pendingWrites) : pendingWrites[i].hourlyWindow # hw

\* C29: when the daily (hourly) key has changed since the last operation, the
\* next checkBudget, recordSpend or getStatus of a manager that is enabled
\* first replaces the cached daily (hourly) total with the durable sum of the
\* new window, zero without a durable store; a total whose key has not
\* changed is kept, and no spend this manager has queued belongs to the
\* window whose total is replaced.
C29_WindowChangeReloadsTotals ==
    [][ ( /\ ret'.op \in {"checkBudget", "recordSpend", "getStatus"}
          /\ config.enabled \/ ret'.op = "getStatus" ) =>
            ReloadedOnChange(IF ret'.op = "recordSpend" THEN ret'.amount ELSE 0)
      ]_vars

\* the hour has changed under a manager with spend in the hour before:
\* checkBudget has looked the new hour up in the open store, starts it from
\* the durable sum and keeps the day's total
C29_Witness ==
    /\ ret.op = "checkBudget"
    /\ config.enabled
    /\ db
    /\ ret.selects = {"hourly"}
    /\ hourlySpendCache = 0
    /\ dailySpendCache > 0
    /\ \E i \in 1..Len(pendingWrites) :
          pendingWrites[i].hourlyWindow # cachedHourlyWindow

\* C31 as stated: whenever daily utilization meets or exceeds a threshold that
\* has not been marked fired in the current daily window, checkBudget lists
\* it, also on calls that report a per-request, hourly or daily breach.
C31_UnmarkedThresholdListedAlways ==
    (ret.op = "checkBudget" /\ config.enabled) =>
        \A t \in ThresholdSet \ marks.all :
            UtilizationAtLeast(ret.result, t) => t \in ret.result.thresholdsCrossed

\* C31, amended: whenever daily utilization meets or exceeds a threshold that
\* has not been marked fired in the current daily window, checkBudget lists
\* it if the call reports no breach; a call that reports a per-request,
\* hourly or daily breach lists no threshold.
C31_UnmarkedThresholdListedUnlessBreach ==
    (ret.op = "checkBudget" /\ config.enabled) =>
        /\ \A t \in ThresholdSet \ marks.all :
              (UtilizationAtLeast(ret.result, t) /\ ~ret.result.breached)
                  => t \in ret.result.thresholdsCrossed
        /\ ret.result.breached => ret.result.thresholdsCrossed = {}

\* a check without breach lists a threshold nobody has marked, with spend
\* queued for the store
C31_Witness ==
    /\ ret.op = "checkBudget"
    /\ config.enabled
    /\ ~ret.result.breached
    /\ marks.all = {}
    /\ ret.result.thresholdsCrossed = ThresholdSet
    /\ pendingWrites # <<>>

\* the queue q is where the queue r began
IsPrefix(q, r) == Len(q) <= Len(r) /\ SubSeq(r, 1, Len(q)) = q

\* a step that runs flushPendingWrites on an open store with records queued
FlushStep == ret'.op \in {"timer", "close"} /\ db /\ pendingWrites # <<>>

\* C32 as stated: every spend record accepted while the store is open is
\* written to the log exactly once: a flush, by the timer or by close(),
\* appends every queued record once and empties the queue, also when an INSERT
\* fails, and no other step takes a record from the queue or writes a row.
C32_EveryRecordWrittenOnce ==
    [][ /\ FlushStep => /\ spend_log' = spend_log \o pendingWrites
                        /\ pendingWrites' = <<>>
        /\ ~FlushStep => /\ IsPrefix(pendingWrites, pendingWrites')
                         /\ Len(spend_log') <= Len(spend_log)
      ]_vars

\* C32, amended: no spend record is written twice, by a timer flush and
\* close() or otherwise: a flush takes the whole queue and appends its records
\* to the log in order, and no other step takes a record from the queue or
\* writes a row.  The batch is written whole unless an INSERT fails; then the
\* records before the failing one are written and the rest are dropped.
C32_NoRecordWrittenTwice ==
    [][ /\ FlushStep =>
              /\ \E k \in 0..Len(pendingWrites) :
                    spend_log' = spend_log \o SubSeq(pendingWrites, 1, k)
              /\ ret'.op = "close" =>
                    spend_log' = spend_log \o SubSeq(pendingWrites, 1, ret'.inserted)
              /\ pendingWrites' = <<>>
        /\ ~FlushStep => /\ IsPrefix(pendingWrites, pendingWrites')
                         /\ Len(spend_log') <= Len(spend_log)
      ]_vars

\* close() found two records queued on the open store; the second INSERT
\* failed, and the log holds the first record once and the queue nothing
C32_Witness ==
    /\ ret.op = "close"
    /\ ret.pre.db
    /\ Len(ret.pre.pendingWrites) = 2
    /\ ret.inserted = 1
    /\ spend_log = Append(ret.pre.spend_log, ret.pre.pendingWrites[1])
    /\ pendingWrites = <<>>

\* C30: checkBudget neither reads nor writes the durable store: every call,
\* the first after a window change included, decides on the in-memory caches
\* and the configuration alone.
C30_CheckBudgetNeverTouchesStore ==
    ret.op = "checkBudget" => ret.selects = {}

----------------------------------------------------------------------------
(* Response cache: bounds and inputs *)

MaxSizeBytes == 2      \* MemoryLRU.maxSizeBytes (maxSizeMb * 1024 * 1024)
DefaultTtl == 2        \* config.defaultTtlSeconds, in ticks
QuickTtl == 1          \* config.ttlByTaskType['quick'], in ticks
AggressiveMaxAge == 1  \* config.aggressiveMaxAge, in ticks (half the default TTL)
MaxNow == 3            \* the cache clock runs over 0..MaxNow

Hashes == {"k1", "k2"}
TaskTypes == {"general", "quick"}
ttlByTaskType == [quick |-> QuickTtl]

\* response bodies: n bytes, n = 1 .. one more than the memory budget
Bodies == { [i \in 1..n |-> 1] : n \in 1..(MaxSizeBytes + 1) }

\* Buffer.byteLength(response, 'utf-8')
byteLength(response) == Len(response)

----------------------------------------------------------------------------
(* MemoryLRU: entries is the Map in insertion order *)

LruHas(m, hash) == \E i \in DOMAIN m.entries : m.entries[i].hash = hash

LruEntry(m, hash) ==
    m.entries[CHOOSE i \in DOMAIN m.entries : m.entries[i].hash = hash]

\* MemoryLRU.delete
LruDelete(m, hash) ==
    IF LruHas(m, hash)
    THEN [ entries |-> SelectSeq(m.entries, LAMBDA e : e.hash # hash),
           currentSizeBytes |-> m.currentSizeBytes - LruEntry(m, hash).sizeBytes ]
    ELSE m

\* MemoryLRU.get: the map after the lookup (a hit moves the entry to the end)
LruTouch(m, hash) ==
    IF LruHas(m, hash)
    THEN [ entries |-> Append(SelectSeq(m.entries, LAMBDA e : e.hash # hash),
                              LruEntry(m, hash)),
           currentSizeBytes |-> m.currentSizeBytes ]
    ELSE m

RECURSIVE LruEvictUntilFits(_, _)
\* the while loop of MemoryLRU.set: drop the oldest entry until the new one fits
LruEvictUntilFits(m, sizeBytes) ==
    IF m.currentSizeBytes + sizeBytes > MaxSizeBytes /\ Len(m.entries) > 0
    THEN LruEvictUntilFits(
             [ entries |-> Tail(m.entries),
               currentSizeBytes |-> m.currentSizeBytes - Head(m.entries).sizeBytes ],
             sizeBytes)
    ELSE m

\* MemoryLRU.set without the eviction loop
LruSetNoEviction(m, hash, response) ==
    LET sizeBytes == byteLength(response)
        m1 == LruDelete(m, hash)
    IN  IF sizeBytes > MaxSizeBytes THEN m1
        ELSE [ entries |-> Append(m1.entries,
                   [hash |-> hash, response |-> response, sizeBytes |-> sizeBytes]),
               currentSizeBytes |-> m1.currentSizeBytes + sizeBytes ]

\* MemoryLRU.set that refuses a body of exactly the budget (>= for >)
LruSetRefusesFull(m, hash, response) ==
    LET sizeBytes == byteLength(response)
        m2 == LruEvictUntilFits(LruDelete(m, hash), sizeBytes)
    IN  IF sizeBytes >= MaxSizeBytes THEN m2
        ELSE [ entries |-> Append(m2.entries,
                   [hash |-> hash, response |-> response, sizeBytes |-> sizeBytes]),
               currentSizeBytes |-> m2.currentSizeBytes + sizeBytes ]

\* MemoryLRU.set
LruSet(m, hash, response) ==
    LET sizeBytes == byteLength(response)
        m1 == LruDelete(m, hash)
        m2 == LruEvictUntilFits(m1, sizeBytes)
    IN  IF sizeBytes > MaxSizeBytes THEN m2
        ELSE [ entries |-> Append(m2.entries,
                   [hash |-> hash, response |-> response, sizeBytes |-> sizeBytes]),
               currentSizeBytes |-> m2.currentSizeBytes + sizeBytes ]

EmptyLru == [entries |-> <<>>, currentSizeBytes |-> 0]

----------------------------------------------------------------------------
(* Disk and index helpers *)

\* a function without the key h
Without(f, h) == [x \in DOMAIN f \ {h} |-> f[x]]

\* a function with h bound to v (INSERT OR REPLACE / writeFileSync)
With(f, h, v) == [x \in DOMAIN f \cup {h} |-> IF x = h THEN v ELSE f[x]]

\* zlib.gzipSync(Buffer.from(response, 'utf-8'))
gzip(response) == [gz |-> response]

\* zlib.gunzipSync(compressed).toString('utf-8')
gunzip(compressed) == compressed.gz

\* saveToDisk: writeFileSync throws when responsesDir is missing, and the
\* catch swallows it
saveToDisk(hash, response) ==
    IF dirExists THEN With(files, hash, gzip(response)) ELSE files

\* loadFromDisk: [found, response]; a missing file reads as null
loadFromDisk(hash) ==
    IF hash \in DOMAIN files
    THEN [found |-> TRUE, response |-> gunzip(files[hash])]
    ELSE [found |-> FALSE, response |-> <<>>]

\* a row of cache_entries for hash that has not expired at time t
LiveRow(hash, t) == hash \in DOMAIN cache_entries /\ cache_entries[hash] > t

\* DELETE FROM cache_entries WHERE expires_at <= t
SweepExpired(rows, t) ==
    [h \in {x \in DOMAIN rows : rows[x] > t} |-> rows[h]]

\* the TTL set() gives an entry of this task type
TtlFor(taskType) ==
    IF taskType \in DOMAIN ttlByTaskType THEN ttlByTaskType[taskType]
    ELSE DefaultTtl

----------------------------------------------------------------------------
(* ResponseCache operations *)

\* evict(hash) applied to the three tiers st = [memory, cache_entries, files]
evict(st, hash) ==
    [ memory        |-> LruDelete(st.memory, hash),
      cache_entries |-> IF cacheDb THEN Without(st.cache_entries, hash)
                        ELSE st.cache_entries,
      files         |-> Without(st.files, hash) ]

Tiers == [memory |-> memory, cache_entries |-> cache_entries, files |-> files]

SetTiers(st) ==
    /\ memory' = st.memory
    /\ cache_entries' = st.cache_entries
    /\ files' = st.files

\* a get whose disk hit is served without promoting the body into memory
CacheLookupNoPromotion(hash) ==
    IF LruHas(memory, hash)
    THEN LET memHit == LruEntry(memory, hash).response
             touched == [Tiers EXCEPT !.memory = LruTouch(memory, hash)]
         IN  IF cacheDb /\ ~LiveRow(hash, now)
             THEN [tiers |-> evict(touched, hash), hit |-> FALSE, body |-> <<>>]
             ELSE [tiers |-> touched, hit |-> TRUE, body |-> memHit]
    ELSE IF cacheDb /\ LiveRow(hash, now)
    THEN LET d == loadFromDisk(hash)
         IN  IF d.found /\ d.response # <<>>
             THEN [tiers |-> Tiers, hit |-> TRUE, body |-> d.response]
             ELSE [ tiers |-> [Tiers EXCEPT
                                  !.cache_entries = Without(cache_entries, hash)],
                    hit |-> FALSE, body |-> <<>> ]
    ELSE [tiers |-> Tiers, hit |-> FALSE, body |-> <<>>]

\* get(hash): [tiers, hit, body], the tiers after the call and what it returns
CacheLookup(hash) ==
    IF LruHas(memory, hash)
    THEN LET memHit == LruEntry(memory, hash).response
             touched == [Tiers EXCEPT !.memory = LruTouch(memory, hash)]
         IN  IF cacheDb /\ ~LiveRow(hash, now)
             THEN [tiers |-> evict(touched, hash), hit |-> FALSE, body |-> <<>>]
             ELSE [tiers |-> touched, hit |-> TRUE, body |-> memHit]
    ELSE IF cacheDb /\ LiveRow(hash, now)
    THEN LET d == loadFromDisk(hash)
         IN  IF d.found /\ d.response # <<>>
             THEN [ tiers |-> [Tiers EXCEPT
                                  !.memory = LruSet(memory, hash, d.response)],
                    hit |-> TRUE, body |-> d.response ]
             ELSE [ tiers |-> [Tiers EXCEPT
                                  !.cache_entries = Without(cache_entries, hash)],
                    hit |-> FALSE, body |-> <<>> ]
    ELSE [tiers |-> Tiers, hit |-> FALSE, body |-> <<>>]

CacheGet(hash) ==
    LET g == CacheLookup(hash)
        afterSet == cret.op = "set" /\ cret.stored /\ cret.hash = hash
        afterPush == cret.op = "set" /\ cret.stored /\ hash \in DOMAIN cret.pushed
    IN  /\ SetTiers(g.tiers)
        /\ cret' = [ op |-> "get", hash |-> hash, hit |-> g.hit, body |-> g.body,
                     at |-> now,
                     \* history: the set this get directly follows, if any
                     afterSet |-> afterSet,
                     setBody |-> IF afterSet THEN cret.body ELSE <<>>,
                     setExpires |-> IF afterSet THEN cret.expires_at ELSE 0,
                     \* history: the body of hash that the set this get
                     \* directly follows pushed out of the LRU, if it did
                     pushedBody |-> IF afterPush THEN cret.pushed[hash] ELSE <<>>,
                     \* history: the index held an unexpired row for hash
                     liveRow |-> cacheDb /\ LiveRow(hash, now),
                     \* history: the index held an expired row for hash
                     expiredRow |-> /\ cacheDb
                                    /\ hash \in DOMAIN cache_entries
                                    /\ cache_entries[hash] <= now ]
        /\ UNCHANGED <<notCache, cacheConfig, cacheDb, cacheInitialized,
                       dirExists, now>>

\* the hashes resident in the LRU
Resident(m) == { m.entries[i].hash : i \in DOMAIN m.entries }

\* hash -> body of the entries the eviction loop of a set(hash, ...) took out
\* of m on the way to m2
PushedOut(m, m2, hash) ==
    [h \in (Resident(m) \ {hash}) \ Resident(m2) |-> LruEntry(m, h).response]

CacheSet(hash, responseJson, taskType) ==
    /\ IF ~cacheConfig.enabled
       THEN /\ cret' = [ op |-> "set", hash |-> hash, body |-> responseJson,
                         stored |-> FALSE, expires_at |-> 0, evicted |-> 0,
                         pushed |-> NoRows, replaced |-> FALSE ]
            /\ UNCHANGED <<memory, cache_entries, files>>
       ELSE LET m == LruSet(memory, hash, responseJson)
                expires_at == now + TtlFor(taskType)
            IN  /\ memory' = m
                /\ files' = saveToDisk(hash, responseJson)
                /\ cache_entries' = IF cacheDb
                                    THEN With(cache_entries, hash, expires_at)
                                    ELSE cache_entries
                /\ cret' = [ op |-> "set", hash |-> hash, body |-> responseJson,
                             stored |-> TRUE, expires_at |-> expires_at,
                             evicted |-> Cardinality(
                                 (Resident(memory) \ {hash}) \ Resident(m)),
                             pushed |-> PushedOut(memory, m, hash),
                             replaced |-> LruHas(memory, hash) ]
    /\ UNCHANGED <<notCache, cacheConfig, cacheDb, cacheInitialized,
                   dirExists, now>>

CacheEvict(hash) ==
    /\ SetTiers(evict(Tiers, hash))
    /\ cret' = [op |-> "evict", hash |-> hash]
    /\ UNCHANGED <<notCache, cacheConfig, cacheDb, cacheInitialized,
                   dirExists, now>>

CacheClear ==
    /\ memory' = EmptyLru
    /\ cache_entries' = IF cacheDb THEN NoRows ELSE cache_entries
    /\ files' = NoRows
    /\ cret' = [op |-> "clear"]
    /\ UNCHANGED <<notCache, cacheConfig, cacheDb, cacheInitialized,
                   dirExists, now>>

RECURSIVE EvictAll(_, _)
EvictAll(st, hashes) ==
    IF hashes = {} THEN st
    ELSE LET h == CHOOSE x \in hashes : TRUE
         IN  EvictAll(evict(st, h), hashes \ {h})

\* cleanup(): evict every hash whose row has expired
CacheCleanup ==
    /\ cacheDb
    /\ SetTiers(EvictAll(Tiers,
           {h \in DOMAIN cache_entries : cache_entries[h] <= now}))
    /\ cret' = [op |-> "cleanup"]
    /\ UNCHANGED <<notCache, cacheConfig, cacheDb, cacheInitialized,
                   dirExists, now>>

\* init(): ok is whether better-sqlite3 opens index.db
CacheInit(ok) ==
    /\ ~cacheInitialized
    /\ cacheConfig.enabled
    /\ cacheInitialized' = TRUE
    /\ dirExists' = TRUE
    /\ cacheDb' = ok
    /\ cache_entries' = IF ok THEN SweepExpired(cache_entries, now)
                        ELSE cache_entries
    /\ cret' = [op |-> "init", at |-> now]
    /\ UNCHANGED <<notCache, cacheConfig, memory, files, now>>

SetEnabled(enabled) ==
    /\ enabled # cacheConfig.enabled
    /\ cacheConfig' = [cacheConfig EXCEPT !.enabled = enabled]
    /\ cret' = [op |-> "setEnabled"]
    /\ UNCHANGED <<notCache, cacheDb, cacheInitialized, memory, cache_entries,
                   files, dirExists, now>>

\* resetResponseCache() and the next getResponseCache(): the instance is
\* closed and a new one is constructed over the same cacheDir
ResetResponseCache ==
    /\ cacheDb' = FALSE
    /\ cacheInitialized' = FALSE
    /\ memory' = EmptyLru
    /\ cret' = [op |-> "new"]
    /\ UNCHANGED <<notCache, cacheConfig, cache_entries, files, dirExists, now>>

CacheTick ==
    /\ now < MaxNow
    /\ now' = now + 1
    /\ UNCHANGED <<notCache, cacheConfig, cacheDb, cacheInitialized, memory,
                   cache_entries, files, dirExists, cret>>

CacheStart ==
    /\ BudgetIdle
    /\ RestIdle
    /\ KeysAndAlertsIdle
    /\ cacheConfig = [enabled |-> TRUE, mode |-> "exact",
                      onlyWhenDeterministic |-> TRUE]
    /\ cacheDb = FALSE
    /\ cacheInitialized = FALSE
    /\ memory = EmptyLru
    /\ cache_entries = NoRows
    /\ files = NoRows
    /\ dirExists = FALSE
    /\ now = 0
    /\ cret = [op |-> "new"]

CacheNext ==
    \/ \E h \in Hashes : CacheGet(h)
    \/ \E h \in Hashes, b \in Bodies, t \in TaskTypes : CacheSet(h, b, t)
    \/ \E h \in Hashes : CacheEvict(h)
    \/ CacheClear
    \/ CacheCleanup
    \/ \E ok \in BOOLEAN : CacheInit(ok)
    \/ \E e \in BOOLEAN : SetEnabled(e)
    \/ ResetResponseCache
    \/ CacheTick

CacheSpec == CacheStart /\ [][CacheNext]_vars

\* the cache in either keying mode, with inserts, lookups and the clock
TtlStart ==
    /\ BudgetIdle
    /\ RestIdle
    /\ KeysAndAlertsIdle
    /\ cacheConfig \in [enabled : {TRUE}, mode : {"exact", "aggressive"},
                        onlyWhenDeterministic : {TRUE}]
    /\ cacheDb = FALSE
    /\ cacheInitialized = FALSE
    /\ memory = EmptyLru
    /\ cache_entries = NoRows
    /\ files = NoRows
    /\ dirExists = FALSE
    /\ now = 0
    /\ cret = [op |-> "new"]

TtlNext ==
    \/ \E h \in Hashes : CacheGet(h)
    \/ \E h \in Hashes, b \in Bodies, t \in TaskTypes : CacheSet(h, b, t)
    \/ \E ok \in BOOLEAN : CacheInit(ok)
    \/ CacheTick

TtlSpec == TtlStart /\ [][TtlNext]_vars

----------------------------------------------------------------------------
(* Properties of the response cache *)

RECURSIVE BytesHeld(_)
\* the bytes of the bodies the LRU holds
BytesHeld(entries) ==
    IF entries = <<>> THEN 0
    ELSE byteLength(Head(entries).response) + BytesHeld(Tail(entries))

\* C4: the bytes held by the in-memory LRU, and the counter it keeps of them,
\* never exceed the byte budget, whatever inserts, replacements, lookups,
\* deletes and disk promotions have run.
C4_MemoryWithinBudget ==
    /\ BytesHeld(memory.entries) <= MaxSizeBytes
    /\ memory.currentSizeBytes = BytesHeld(memory.entries)

\* C4 witness: an insert that had to push an older entry out and left the LRU
\* filled to the budget
C4_Witness ==
    /\ cret.op = "set"
    /\ cret.stored
    /\ cret.evicted >= 1
    /\ memory.currentSizeBytes = MaxSizeBytes

\* C5 as stated: on an enabled cache, get(K) directly after set(K, body) and
\* before the entry's expiry returns body, for every body.
C5_RoundTripAnyBody ==
    (cret.op = "get" /\ cret.afterSet /\ cret.at < cret.setExpires)
        => (cret.hit /\ cret.body = cret.setBody)

\* C5 amended: on an enabled cache, get(K) directly after set(K, body) and
\* before the entry's expiry returns body, for every body whose byte length is
\* at most the memory byte budget.
C5_RoundTripFittingBody ==
    ( /\ cret.op = "get"
      /\ cret.afterSet
      /\ cret.at < cret.setExpires
      /\ byteLength(cret.setBody) <= MaxSizeBytes )
        => (cret.hit /\ cret.body = cret.setBody)

\* C5 witness: a body that fills the whole budget comes back, with the index
\* open and time having passed since the set
C5_Witness ==
    /\ cret.op = "get"
    /\ cret.afterSet
    /\ cacheDb
    /\ cret.at > 0
    /\ cret.at < cret.setExpires
    /\ byteLength(cret.setBody) = MaxSizeBytes
    /\ cret.hit
    /\ cret.body = cret.setBody

ClaimedTtl(taskType) ==
    IF taskType \in DOMAIN ttlByTaskType THEN ttlByTaskType[taskType]
    ELSE IF cacheConfig.mode = "aggressive" THEN AggressiveMaxAge
    ELSE DefaultTtl

\* C34: an entry inserted with task type T expires ttlByTaskType[T] after the
\* insertion when that override exists, and otherwise after the default TTL
\* of the mode: defaultTtlSeconds in exact mode, aggressiveMaxAge in
\* aggressive mode.  (The expiry is the expires_at of the entry's index row.)
C34_ExpiryFollowsTaskTypeAndMode ==
    [][ \A h \in Hashes, b \in Bodies, t \in TaskTypes :
          (cacheConfig.enabled /\ cacheDb /\ CacheSet(h, b, t)) =>
              cache_entries'[h] = now + ClaimedTtl(t)
      ]_vars

\* C35: inserting a body larger than the whole memory byte budget is refused
\* without disturbing the memory tier: every entry resident before the call,
\* the one under the inserted key included, is resident after it.
C35_OversizedInsertLeavesMemory ==
    (cret.op = "set" /\ cret.stored /\ byteLength(cret.body) > MaxSizeBytes) =>
        /\ cret.evicted = 0
        /\ cret.replaced => LruHas(memory, cret.hash)

\* C6: a lookup of a hash whose index row has expired returns null and leaves
\* the hash in no tier: not in memory, not in the index, not on disk.
C6_ExpiredLookupRemoves ==
    (cret.op = "get" /\ cret.expiredRow)
        => /\ ~cret.hit
           /\ ~LruHas(memory, cret.hash)
           /\ cret.hash \notin DOMAIN cache_entries
           /\ cret.hash \notin DOMAIN files

\* C7 (the startup case of the claim): right after an init() that opened the
\* index, a response file exists for a hash exactly when the index holds an
\* unexpired row for it.
C7_FileIffLiveRowAfterInit ==
    (cret.op = "init" /\ cacheDb /\ cret.at = now)
        => \A h \in Hashes : (h \in DOMAIN files) <=> LiveRow(h, now)

----------------------------------------------------------------------------
(* Cache keys: computeCacheKey, computeAggressiveCacheKey, isDeterministic, *)
(* ResponseCache.shouldBypass and ResponseCache.computeKey.                 *)
(*                                                                          *)
(* A JSON value carries its kind.  An object is the sequence of its         *)
(* properties in insertion order, the order in which JSON.stringify writes  *)
(* them.  A request body is the property sequence of the top-level object.  *)

Str(s) == [t |-> "string", s |-> s]
Num(n) == [t |-> "number", n |-> n]
Bool(b) == [t |-> "boolean", b |-> b]
Null == [t |-> "null"]
Arr(items) == [t |-> "array", items |-> items]
Obj(props) == [t |-> "object", props |-> props]
Prop(k, v) == [k |-> k, v |-> v]
Undefined == [t |-> "undefined"]

\* Object.keys(obj)
Keys(props) == [i \in 1..Len(props) |-> props[i].k]

Has(props, f) == \E i \in 1..Len(props) : props[i].k = f

\* obj[f]
Get(props, f) ==
    IF Has(props, f)
    THEN props[CHOOSE i \in 1..Len(props) : props[i].k = f].v
    ELSE Undefined

\* obj[f] = v: a key the object has keeps its place, a new key goes last
Put(props, f, v) ==
    IF Has(props, f)
    THEN [i \in 1..Len(props) |-> IF props[i].k = f THEN Prop(f, v) ELSE props[i]]
    ELSE Append(props, Prop(f, v))

\* delete obj[f]
Delete(props, f) == SelectSeq(props, LAMBDA p : p.k # f)

RECURSIVE stringify(_), stringifyItems(_), stringifyProps(_)
\* JSON.stringify(v)
stringify(v) ==
    CASE v.t = "string" -> "\"" \o v.s \o "\""
      [] v.t = "number" -> ToString(v.n)
      [] v.t = "boolean" -> (IF v.b THEN "true" ELSE "false")
      [] v.t = "null" -> "null"
      [] v.t = "undefined" -> "null"
      [] v.t = "array" -> "[" \o stringifyItems(v.items) \o "]"
      [] v.t = "object" ->
            "{" \o stringifyProps(SelectSeq(v.props, LAMBDA p : p.v # Undefined))
                \o "}"

stringifyItems(items) ==
    IF items = <<>> THEN ""
    ELSE stringify(Head(items)) \o (IF Len(items) > 1 THEN "," ELSE "")
            \o stringifyItems(Tail(items))

stringifyProps(props) ==
    IF props = <<>> THEN ""
    ELSE "\"" \o Head(props).k \o "\":" \o stringify(Head(props).v)
            \o (IF Len(props) > 1 THEN "," ELSE "")
            \o stringifyProps(Tail(props))

\* crypto.createHash('sha256').update(json).digest('hex'): the digest stands
\* for the text it was computed from (no two texts of the model collide)
sha256(json) == [sha256 |-> json]

\* the key names of the canonical objects, in the order Array.prototype.sort
\* puts them (UTF-16 code units)
Alphabetical ==
    <<"last_user_message", "max_tokens", "messages", "model", "stop_sequences",
      "system", "temperature", "tool_choice", "tools", "top_k", "top_p">>

\* keys.sort()
sort(keys) ==
    SelectSeq(Alphabetical, LAMBDA k : \E i \in 1..Len(keys) : keys[i] = k)

CACHE_KEY_FIELDS ==
    <<"max_tokens", "messages", "model", "stop_sequences", "system",
      "temperature", "tool_choice", "tools", "top_k", "top_p">>

AGGRESSIVE_KEY_FIELDS == <<"model", "system", "tools">>

\* for (const field of fields) if (requestBody[field] !== undefined)
\*     canonical[field] = requestBody[field]
pick(fields, requestBody) ==
    LET present == SelectSeq(fields, LAMBDA f : Get(requestBody, f) # Undefined)
    IN  [i \in 1..Len(present) |-> Prop(present[i], Get(requestBody, present[i]))]

\* const ordered = {}; for (const k of Object.keys(canonical).sort())
\*     ordered[k] = canonical[k]; JSON.stringify(ordered), hashed
digest(canonical) ==
    LET sortedKeys == sort(Keys(canonical))
        ordered == [i \in 1..Len(sortedKeys) |->
                        Prop(sortedKeys[i], Get(canonical, sortedKeys[i]))]
    IN  sha256(stringify(Obj(ordered)))

computeCacheKey(requestBody) == digest(pick(CACHE_KEY_FIELDS, requestBody))

\* the positions of the user-role messages
UserTurns(messages) ==
    IF messages = Undefined \/ messages.t # "array" THEN {}
    ELSE { i \in 1..Len(messages.items) :
             Get(messages.items[i].props, "role") = Str("user") }

\* a variant that takes the first user message instead of the last
firstUserMessage(canonical, messages) ==
    LET users == UserTurns(messages)
    IN  IF users = {} THEN canonical
        ELSE Put(canonical, "last_user_message",
                 Get(messages.items[CHOOSE i \in users : \A j \in users : i <= j].props,
                     "content"))

\* the loop from the last message down to the first, stopping at the first
\* message whose role is user
lastUserMessage(canonical, messages) ==
    LET users == UserTurns(messages)
    IN  IF users = {} THEN canonical
        ELSE Put(canonical, "last_user_message",
                 Get(messages.items[CHOOSE i \in users : \A j \in users : j <= i].props,
                     "content"))

computeAggressiveCacheKey(requestBody) ==
    digest(lastUserMessage(pick(AGGRESSIVE_KEY_FIELDS, requestBody),
                           Get(requestBody, "messages")))

\* a variant that takes every temperature at or below 0 for deterministic
isDeterministicNonPositive(requestBody) ==
    LET temp == Get(requestBody, "temperature")
    IN  temp = Undefined \/ temp = Null \/ (temp.t = "number" /\ temp.n <= 0)

isDeterministic(requestBody) ==
    LET temp == Get(requestBody, "temperature")
    IN  temp = Undefined \/ temp = Null \/ temp = Num(0)

\* ResponseCache.shouldBypass
shouldBypass(requestBody) ==
    IF ~cacheConfig.enabled THEN TRUE
    ELSE IF cacheConfig.mode = "aggressive" THEN FALSE
    ELSE IF cacheConfig.onlyWhenDeterministic /\ ~isDeterministic(requestBody)
         THEN TRUE
    ELSE FALSE

\* ResponseCache.computeKey
computeKey(requestBody) ==
    IF cacheConfig.mode = "aggressive"
    THEN computeAggressiveCacheKey(requestBody)
    ELSE computeCacheKey(requestBody)

----------------------------------------------------------------------------
(* The request bodies a client sends, and how it varies them *)

Message(role, content) ==
    Obj(<<Prop("role", Str(role)), Prop("content", Str(content))>>)

Tool(name, description) ==
    Obj(<<Prop("name", Str(name)), Prop("description", Str(description))>>)

\* a conversation of three turns with every determinant of the keys present
LongRequest ==
    <<Prop("stream", Bool(TRUE)),
      Prop("model", Str("m1")),
      Prop("messages", Arr(<<Message("user", "a"), Message("assistant", "b"),
                             Message("user", "c")>>)),
      Prop("system", Str("s")),
      Prop("tools", Arr(<<Tool("t", "d")>>)),
      Prop("temperature", Num(0)),
      Prop("max_tokens", Num(1))>>

\* a single turn with no system prompt, no tools and no temperature
ShortRequest ==
    <<Prop("model", Str("m2")),
      Prop("messages", Arr(<<Message("user", "a")>>)),
      Prop("authorization", Str("k"))>>

Requests == {LongRequest, ShortRequest}

\* the values a client sets a field to
FieldValues ==
    { <<"temperature", v>> : v \in {Null, Num(0), Num(1), Num(-1)} }
    \cup { <<"max_tokens", Num(2)>> }
    \cup { <<"model", Str("m2")>>, <<"system", Str("s2")>> }

Contents == {"a", "c"}

CacheConfigs ==
    [enabled : BOOLEAN, mode : {"exact", "aggressive"},
     onlyWhenDeterministic : BOOLEAN]

Reverse(seq) == [i \in 1..Len(seq) |-> seq[Len(seq) + 1 - i]]

\* the same body with its top-level keys written in the opposite order
ReorderKeys ==
    /\ Len(req) > 1
    /\ req' = Reverse(req)
    /\ kret' = [op |-> "edit"]
    /\ UNCHANGED <<notKeys, req0, normalizeOnly>>

\* the same body with the keys of every object inside messages, or inside
\* tools, written in the opposite order
ReorderNested(f) ==
    /\ Has(req, f)
    /\ LET items == Get(req, f).items
       IN  req' = Put(req, f, Arr([i \in 1..Len(items) |->
                                      Obj(Reverse(items[i].props))]))
    /\ kret' = [op |-> "edit"]
    /\ UNCHANGED <<notKeys, req0, normalizeOnly>>

\* the same body without a field that is outside the exact-mode key set
DropIgnored(f) ==
    /\ Has(req, f)
    /\ \A i \in 1..Len(CACHE_KEY_FIELDS) : CACHE_KEY_FIELDS[i] # f
    /\ req' = Delete(req, f)
    /\ kret' = [op |-> "edit"]
    /\ UNCHANGED <<notKeys, req0, normalizeOnly>>

\* the client sends field f with another value
SetField(f, v) ==
    /\ Get(req, f) # v
    /\ req' = Put(req, f, v)
    /\ normalizeOnly' = FALSE
    /\ kret' = [op |-> "edit"]
    /\ UNCHANGED <<notKeys, req0>>

\* the client sends no tools
DropTools ==
    /\ Has(req, "tools")
    /\ req' = Delete(req, "tools")
    /\ normalizeOnly' = FALSE
    /\ kret' = [op |-> "edit"]
    /\ UNCHANGED <<notKeys, req0>>

\* the client sends the conversation without its oldest turn
DropOldestTurn ==
    /\ Len(Get(req, "messages").items) > 1
    /\ req' = Put(req, "messages", Arr(Tail(Get(req, "messages").items)))
    /\ normalizeOnly' = FALSE
    /\ kret' = [op |-> "edit"]
    /\ UNCHANGED <<notKeys, req0>>

\* the client sends another last user message
SetLastUserContent(c) ==
    /\ LET messages == Get(req, "messages")
           users == UserTurns(messages)
       IN  /\ users # {}
           /\ LET last == CHOOSE i \in users : \A j \in users : j <= i
                  turn == messages.items[last]
              IN  /\ Get(turn.props, "content") # Str(c)
                  /\ req' = Put(req, "messages",
                                Arr([messages.items EXCEPT ![last] =
                                        Obj(Put(turn.props, "content", Str(c)))]))
    /\ normalizeOnly' = FALSE
    /\ kret' = [op |-> "edit"]
    /\ UNCHANGED <<notKeys, req0>>

\* cache.computeKey(body) for the first body and for the current one
ComputeKey ==
    /\ kret' = [op |-> "computeKey", key0 |-> computeKey(req0),
                key |-> computeKey(req)]
    /\ UNCHANGED <<notKeys, req0, req, normalizeOnly>>

\* cache.shouldBypass(body)
ShouldBypass ==
    /\ kret' = [op |-> "shouldBypass", result |-> shouldBypass(req)]
    /\ UNCHANGED <<notKeys, req0, req, normalizeOnly>>

KeyStart ==
    /\ BudgetIdle
    /\ RestIdle
    /\ AlertIdle /\ AnomalyIdle /\ DowngradeIdle
    /\ cacheConfig \in CacheConfigs
    /\ cacheDb = FALSE
    /\ cacheInitialized = FALSE
    /\ memory = EmptyLru
    /\ cache_entries = NoRows
    /\ files = NoRows
    /\ dirExists = FALSE
    /\ now = 0
    /\ cret = [op |-> "new"]
    /\ req0 \in Requests
    /\ req = req0
    /\ normalizeOnly = TRUE
    /\ kret = [op |-> "new"]

KeyNext ==
    \/ ReorderKeys
    \/ \E f \in {"messages", "tools"} : ReorderNested(f)
    \/ \E f \in {"stream", "authorization"} : DropIgnored(f)
    \/ \E e \in FieldValues : SetField(e[1], e[2])
    \/ DropTools
    \/ DropOldestTurn
    \/ \E c \in Contents : SetLastUserContent(c)
    \/ ComputeKey
    \/ ShouldBypass

KeySpec == KeyStart /\ [][KeyNext]_vars

----------------------------------------------------------------------------
(* Properties of the cache keys *)

\* C8: the exact-mode key of a request body equals the key of the same body
\* with its object keys reordered, top-level or inside messages and tools,
\* and its fields outside the exact-mode key set removed.
C8_KeyInvariantUnderNormalize ==
    (kret.op = "computeKey" /\ cacheConfig.mode = "exact" /\ normalizeOnly)
        => kret.key = kret.key0

\* the content of the last user-role message of a body
C9_LastUserContent(body) ==
    LET users == UserTurns(Get(body, "messages"))
    IN  IF users = {} THEN Undefined
        ELSE Get(Get(body, "messages").items[
                    CHOOSE i \in users : \A j \in users : j <= i].props,
                 "content")

\* two bodies carry the same model, system, tools and last user content
\* (the same JSON text for each; key order inside tools is the subject of C8)
C9_Agree(a, b) ==
    /\ \A f \in {"model", "system", "tools"} : Get(a, f) = Get(b, f)
    /\ C9_LastUserContent(a) = C9_LastUserContent(b)

C10_BypassWhenTemperaturePositive ==
    kret.op = "shouldBypass" =>
        (kret.result <=>
            \/ ~cacheConfig.enabled
            \/ /\ cacheConfig.mode = "exact"
               /\ cacheConfig.onlyWhenDeterministic
               /\ Get(req, "temperature").t = "number"
               /\ Get(req, "temperature").n > 0)

\* C10, amended: shouldBypass returns true exactly when the cache is disabled,
\* or the mode is exact with onlyWhenDeterministic set and the request carries
\* a temperature that is neither null nor 0; in aggressive mode it returns
\* false for every request as long as the cache is enabled.
C10_BypassUnlessTemperatureZero ==
    kret.op = "shouldBypass" =>
        (kret.result <=>
            \/ ~cacheConfig.enabled
            \/ /\ cacheConfig.mode = "exact"
               /\ cacheConfig.onlyWhenDeterministic
               /\ Get(req, "temperature") \notin {Undefined, Null, Num(0)})

\* an enabled exact-mode cache bypasses a request whose temperature is below 0
C10_Witness ==
    /\ kret.op = "shouldBypass"
    /\ cacheConfig = [enabled |-> TRUE, mode |-> "exact",
                      onlyWhenDeterministic |-> TRUE]
    /\ Get(req, "temperature") = Num(-1)
    /\ kret.result

----------------------------------------------------------------------------
(* AlertManager (src/src/mesh/sync.ts)                                      *)
(*                                                                          *)
(* An alert id `alert-<n>-<t>` is the pair [n, t].  The table alerts of     *)
(* alerts.db lives on disk: it outlives the manager that wrote it.          *)

CooldownMs == 2        \* config.cooldownMs
MaxHistory == 1        \* config.maxHistory, and one less after updateConfig
MaxAlertNow == 3       \* the clock of the alert manager runs over 1..MaxAlertNow
MaxAlerts == 2         \* alerts created in one process

AlertConfigs ==
    [enabled : BOOLEAN, webhookUrl : BOOLEAN, cooldownMs : {CooldownMs},
     maxHistory : {MaxHistory}]

\* the ids of the rows of a history
Ids(rows) == { rows[i].id : i \in 1..Len(rows) }

\* a variant whose window is one millisecond shorter than the cooldown
isDuplicateShortWindow(key) ==
    /\ key \in DOMAIN dedup
    /\ dedup[key] # 0
    /\ (alertNow - dedup[key]) < alertConfig.cooldownMs - 1

\* the test of isDuplicate: last && (Date.now() - last) < cooldownMs
isDuplicate(key) ==
    /\ key \in DOMAIN dedup
    /\ dedup[key] # 0
    /\ (alertNow - dedup[key]) < alertConfig.cooldownMs

\* the Alert that createAlert allocates
NewAlert(type, severity) ==
    [id |-> [n |-> alertCounter + 1, t |-> alertNow], type |-> type,
     severity |-> severity, timestamp |-> alertNow, delivered |-> FALSE]

\* the memory branch of storeAlert: push, then one shift when over the cap
storeInMemory(ring, alert) ==
    LET pushed == Append(ring, alert)
    IN  IF Len(pushed) > alertConfig.maxHistory THEN Tail(pushed) ELSE pushed

\* the tables that DELETE ... WHERE id IN (SELECT id ... ORDER BY timestamp ASC
\* LIMIT count - maxHistory) can leave: SQL fixes no order among equal timestamps
pruned(rows) ==
    IF Len(rows) <= alertConfig.maxHistory THEN {rows}
    ELSE { SelectSeq(rows, LAMBDA r : r.id \notin D) :
             D \in { E \in SUBSET Ids(rows) :
                       /\ Cardinality(E) = Len(rows) - alertConfig.maxHistory
                       /\ \A i, j \in 1..Len(rows) :
                            (rows[i].id \in E /\ rows[j].id \notin E)
                                => rows[i].timestamp <= rows[j].timestamp } }

\* what the caller and the claims see of the manager before a call
AlertSnapshot ==
    [alertCounter |-> alertCounter, dedup |-> dedup, memoryAlerts |-> memoryAlerts,
     alerts |-> alerts, fetches |-> fetches, alertDb |-> alertDb]

\* the key last produced an alert less than cooldownMs ago
FiredRecently(key) ==
    /\ key \in DOMAIN lastAlert
    /\ alertNow - lastAlert[key] < alertConfig.cooldownMs

\* whether a statement on the open database fails (disk full, file locked or
\* removed): with no database open there is nothing to fail
StoreFaults == IF alertDb THEN BOOLEAN ELSE {FALSE}

\* the common body of fireThreshold, fireAnomaly and fireBreach; faults is
\* what the environment can do to the INSERT of this call
Fire(dedupKey, type, severity, faults) ==
    LET returns(result, threw, fault) ==
            aret' = [op |-> "fire", key |-> dedupKey, result |-> result,
                     threw |-> threw, fault |-> fault,
                     recently |-> FiredRecently(dedupKey),
                     pre |-> AlertSnapshot]
        alert == NewAlert(type, severity)
    IN
    IF ~alertConfig.enabled \/ isDuplicate(dedupKey)
    THEN /\ returns(<<>>, FALSE, FALSE)
         /\ UNCHANGED <<notAlerts, alertConfig, alertDb, alertInitialized, dedup,
                        memoryAlerts, alertCounter, alerts, fetches, alertNow,
                        lastAlert, created>>
    ELSE /\ Len(created) < MaxAlerts
         /\ alertCounter < MaxAlerts
         /\ dedup' = With(dedup, dedupKey, alertNow)
         /\ alertCounter' = alertCounter + 1
         /\ \E fault \in faults :
            IF alertDb /\ (fault \/ alert.id \in Ids(alerts))
            THEN \* the INSERT throws (the store fails, or the PRIMARY KEY is
                 \* taken): storeAlert has no try, the error reaches the caller
                 /\ returns(<<>>, TRUE, fault)
                 /\ UNCHANGED <<memoryAlerts, alerts, fetches, lastAlert, created>>
            ELSE /\ IF alertDb
                    THEN /\ alerts' \in pruned(Append(alerts, alert))
                         /\ UNCHANGED memoryAlerts
                    ELSE /\ memoryAlerts' = storeInMemory(memoryAlerts, alert)
                         /\ UNCHANGED alerts
                 /\ fetches' = IF alertConfig.webhookUrl
                               THEN fetches \cup {alert.id} ELSE fetches
                 /\ lastAlert' = With(lastAlert, dedupKey, alertNow)
                 /\ created' = Append(created, alert.id)
                 /\ returns(<<alert>>, FALSE, FALSE)
         /\ UNCHANGED <<notAlerts, alertConfig, alertDb, alertInitialized, alertNow>>

fireThreshold(threshold, faults) ==
    Fire("threshold:" \o ToString(threshold), "threshold",
         IF threshold >= 95 THEN "critical"
         ELSE IF threshold >= 80 THEN "warning" ELSE "info", faults)

fireAnomaly(anomaly, faults) ==
    Fire("anomaly:" \o anomaly.type, "anomaly",
         IF anomaly.severity = "critical" THEN "critical" ELSE "warning", faults)

fireBreach(breachType, faults) ==
    Fire("breach:" \o breachType, "breach", "critical", faults)

RetentionMs == 1       \* init() deletes the rows older than this (7 days)

\* alert.delivered = true / UPDATE alerts SET delivered = 1 WHERE id = ?
markDelivered(rows, id) ==
    [i \in 1..Len(rows) |->
        IF rows[i].id = id THEN [rows[i] EXCEPT !.delivered = TRUE] ELSE rows[i]]

\* a variant that marks the alert delivered however the POST ended
settledAlways(outcome, rows, id) == markDelivered(rows, id)

\* the callbacks of the fetch promise: then() marks the alert, catch() does
\* nothing
settled(outcome, rows, id) ==
    IF outcome = "resolved" THEN markDelivered(rows, id) ELSE rows

\* the webhook POST of alert id settles: the promise resolves (a response came,
\* whatever its status) or rejects (the transport failed)
FetchSettles(id, outcome) ==
    /\ id \in fetches
    /\ fetches' = fetches \ {id}
    /\ memoryAlerts' = settled(outcome, memoryAlerts, id)
    /\ alerts' = IF alertDb THEN settled(outcome, alerts, id) ELSE alerts
    /\ aret' = [op |-> "webhook", id |-> id, outcome |-> outcome,
                pre |-> AlertSnapshot]
    /\ UNCHANGED <<notAlerts, alertConfig, alertDb, alertInitialized, dedup,
                   alertCounter, alertNow, lastAlert, created>>

\* AlertManager.init; ok is whether SQLite opens
AlertInit(ok) ==
    /\ ~alertInitialized
    /\ alertConfig.enabled
    /\ alertInitialized' = TRUE
    /\ alertDb' = ok
    /\ alerts' = IF ok
                 THEN SelectSeq(alerts,
                                LAMBDA r : ~(r.timestamp < alertNow - RetentionMs))
                 ELSE alerts
    /\ aret' = [op |-> "init"]
    /\ UNCHANGED <<notAlerts, alertConfig, dedup, memoryAlerts, alertCounter,
                   fetches, alertNow, lastAlert, created>>

\* updateConfig({maxHistory})
AlertUpdateConfig(maxHistory) ==
    /\ maxHistory # alertConfig.maxHistory
    /\ alertConfig' = [alertConfig EXCEPT !.maxHistory = maxHistory]
    /\ aret' = [op |-> "updateConfig"]
    /\ UNCHANGED <<notAlerts, alertDb, alertInitialized, dedup, memoryAlerts,
                   alertCounter, alerts, fetches, alertNow, lastAlert, created>>

AlertClose ==
    /\ alertDb
    /\ alertDb' = FALSE
    /\ aret' = [op |-> "close"]
    /\ UNCHANGED <<notAlerts, alertConfig, alertInitialized, dedup, memoryAlerts,
                   alertCounter, alerts, fetches, alertNow, lastAlert, created>>

\* resetAlertManager() followed by getAlertManager(config): another manager in the
\* same process, once the first has created an alert.  The POSTs of the old manager can still settle, but they reach
\* only the old manager's alerts, and its db is closed.
ResetAlertManager ==
    /\ alertCounter > 0
    /\ alertConfig' = [alertConfig EXCEPT !.maxHistory = MaxHistory]
    /\ alertDb' = FALSE
    /\ alertInitialized' = FALSE
    /\ dedup' = NoRows
    /\ memoryAlerts' = <<>>
    /\ alertCounter' = 0
    /\ fetches' = {}
    /\ lastAlert' = NoRows
    /\ aret' = [op |-> "reset"]
    /\ UNCHANGED <<notAlerts, alerts, alertNow, created>>

AlertTick ==
    /\ alertNow < MaxAlertNow
    /\ alertNow' = alertNow + 1
    /\ aret' = [op |-> "tick"]
    /\ UNCHANGED <<notAlerts, alertConfig, alertDb, alertInitialized, dedup,
                   memoryAlerts, alertCounter, alerts, fetches, lastAlert, created>>

Thresholds == {80}
Anomalies == {[type |-> "repetition", severity |-> "critical"]}
BreachTypes == {"daily"}

AlertStart ==
    /\ BudgetIdle
    /\ RestIdle
    /\ CacheIdle
    /\ KeyIdle /\ AnomalyIdle /\ DowngradeIdle
    /\ alertConfig \in AlertConfigs
    /\ alertDb = FALSE
    /\ alertInitialized = FALSE
    /\ dedup = NoRows
    /\ memoryAlerts = <<>>
    /\ alertCounter = 0
    /\ alerts = <<>>
    /\ fetches = {}
    /\ alertNow = 1
    /\ aret = [op |-> "new"]
    /\ lastAlert = NoRows
    /\ created = <<>>

\* the alert manager on a store whose statements succeed once it is open
AlertNext ==
    \/ \E t \in Thresholds : fireThreshold(t, {FALSE})
    \/ \E a \in Anomalies : fireAnomaly(a, {FALSE})
    \/ \E b \in BreachTypes : fireBreach(b, {FALSE})
    \/ \E id \in fetches, o \in {"resolved", "rejected"} : FetchSettles(id, o)
    \/ \E ok \in BOOLEAN : AlertInit(ok)
    \/ \E h \in {MaxHistory - 1} : AlertUpdateConfig(h)
    \/ AlertClose
    \/ ResetAlertManager
    \/ AlertTick

AlertSpec == AlertStart /\ [][AlertNext]_vars

\* the alert manager on a store that can fail after it has been opened
AlertFaultNext ==
    \/ \E t \in Thresholds : fireThreshold(t, StoreFaults)
    \/ \E a \in Anomalies : fireAnomaly(a, StoreFaults)
    \/ \E b \in BreachTypes : fireBreach(b, StoreFaults)
    \/ \E ok \in BOOLEAN : AlertInit(ok)
    \/ AlertClose
    \/ AlertTick

AlertFaultSpec == AlertStart /\ [][AlertFaultNext]_vars

----------------------------------------------------------------------------
(* Properties of the alert manager *)

\* C11: a fire operation whose dedup key last produced an alert less than
\* cooldownMs ago returns null and changes nothing: no alert is stored, no
\* webhook is issued, the id counter and the recorded last-fire times are as
\* before.  A key for which the manager has no last-fire time is not held back
\* by the other keys: its fire creates an alert.
C11_DuplicateFireHasNoEffect ==
    aret.op = "fire" =>
        /\ aret.recently =>
              /\ aret.result = <<>>
              /\ ~aret.threw
              /\ AlertSnapshot = aret.pre
        /\ (alertConfig.enabled /\ aret.key \notin DOMAIN aret.pre.dedup) =>
              (aret.result # <<>> \/ aret.threw)

\* a fire is refused one millisecond after its key fired, while another key has
\* fired in between
C11_Witness ==
    /\ aret.op = "fire"
    /\ aret.recently
    /\ aret.result = <<>>
    /\ alertNow > lastAlert[aret.key]
    /\ \E k \in DOMAIN lastAlert : k # aret.key /\ lastAlert[k] = alertNow

\* C12: no two alerts created in one process carry the same id, whichever
\* manager created them.
C12_AlertIdsUnique ==
    \A i, j \in 1..Len(created) : i # j => created[i] # created[j]

\* the history the manager reads: the table when the database is open, else
\* the ring
AlertHistory == IF alertDb THEN alerts ELSE memoryAlerts

\* C13: when a fire operation has stored its alert, the history holds at most
\* maxHistory alerts, and every alert removed is at least as old as every alert
\* kept.
C13_HistoryWithinMaxHistory ==
    (aret.op = "fire" /\ aret.result # <<>>) =>
        LET before == Append(IF alertDb THEN aret.pre.alerts
                             ELSE aret.pre.memoryAlerts, aret.result[1])
            kept == Ids(AlertHistory)
        IN  /\ Len(AlertHistory) <= alertConfig.maxHistory
            /\ kept \subseteq Ids(before)
            /\ \A i, j \in 1..Len(before) :
                  (before[i].id \notin kept /\ before[j].id \in kept)
                      => before[i].timestamp <= before[j].timestamp

\* C14: a fire operation returns the alert it created while the webhook POST
\* is still in flight, and a POST that is rejected changes neither the alerts
\* of the history nor the manager's counter and dedup times, and raises
\* nothing.  (A POST that never answers stays in flight: no step of the manager
\* waits for it.)
C14_WebhookFailureIsNonFatal ==
    /\ (aret.op = "fire" /\ aret.result # <<>> /\ alertConfig.webhookUrl) =>
          /\ aret.result[1].id \in fetches
          /\ ~aret.result[1].delivered
          /\ ~aret.threw
    /\ (aret.op = "webhook" /\ aret.outcome = "rejected") =>
          /\ memoryAlerts = aret.pre.memoryAlerts
          /\ alerts = aret.pre.alerts
          /\ alertCounter = aret.pre.alertCounter
          /\ dedup = aret.pre.dedup

\* the POST of an alert that the table holds is rejected
C14_Witness ==
    /\ aret.op = "webhook"
    /\ aret.outcome = "rejected"
    /\ alertDb
    /\ aret.id \in Ids(alerts)

\* C21: a failure of the durable store during a budget, cache or alert
\* operation, after startup, does not reach the caller.  For the fire
\* operations: a call whose INSERT fails raises nothing and returns its alert.
C21_StoreFailureNeverPropagates ==
    (aret.op = "fire" /\ aret.fault) =>
        /\ ~aret.threw
        /\ aret.result # <<>>

\* C38: the cooldown of a dedup key runs from the last fire of that key that
\* stored an alert.  A fire of the key less than cooldownMs after that alert
\* returns null; a fire
\* whose own store step does not fail returns a new alert when the key has
\* stored no alert in the last cooldownMs, whatever happened to the fires of
\* the key since then: suppressed ones did not extend the cooldown, and ones
\* whose store step failed did not start it.
C38_CooldownRunsFromLastStoredAlert ==
    (aret.op = "fire" /\ alertConfig.enabled /\ ~aret.fault) =>
        /\ aret.recently => aret.result = <<>>
        /\ ~aret.recently => aret.result # <<>>

----------------------------------------------------------------------------
(* AnomalyDetector (src/unnamed/part_005)                                   *)
(*                                                                          *)
(* The ring is scaled down: maxBufferSize is 100 in the source, and no line *)
(* of the detector depends on the number; the least number of entries the   *)
(* cost-acceleration detector asks for (10 in the source) is scaled with    *)
(* it.  Costs are whole dollars.                                            *)

maxBufferSize == 4         \* this.maxBufferSize (100 in the source)
RepetitionThreshold == 3   \* config.repetitionThreshold
VelocityThreshold == 4     \* config.velocityThreshold
TokenExplosionUsd == 5     \* config.tokenExplosionUsd
WindowMs == 1              \* config.windowMs
MaxAnomalyNow == 2         \* the detector's clock runs over 0..MaxAnomalyNow
MaxRecords == 5            \* requests recorded by one detector
CostAccelerationMin == 4   \* recent.length >= 10 in the source
MaxMinutes == 2            \* the minutes the detector's clock can jump over
MinuteMs == 60000          \* Math.floor(timestamp / 60_000)
BaselineMinutes == 60      \* minuteKey - 60

AnomalyConfigs ==
    [enabled : BOOLEAN, velocityThreshold : {VelocityThreshold},
     tokenExplosionUsd : {TokenExplosionUsd},
     repetitionThreshold : {RepetitionThreshold}, windowMs : {WindowMs}]

\* the requests the proxy reports: two of them fall in bucket x:1100, one in
\* x:1000, one is another model and costs more than the explosion threshold
Entries ==
    { [model |-> "x", tokensIn |-> 1050, tokensOut |-> 50, costUsd |-> 1],
      [model |-> "x", tokensIn |-> 1000, tokensOut |-> 50, costUsd |-> 1],
      [model |-> "x", tokensIn |-> 900, tokensOut |-> 50, costUsd |-> 1],
      [model |-> "y", tokensIn |-> 1050, tokensOut |-> 50, costUsd |-> 6] }

\* a variant that keeps the oldest entries and drops the new one
pushRingKeepOldest(ring, record) ==
    IF Len(ring) + 1 > maxBufferSize THEN ring ELSE Append(ring, record)

\* this.buffer.push(record); if (length > maxBufferSize) this.buffer.shift()
pushRing(ring, record) ==
    LET pushed == Append(ring, record)
    IN  IF Len(pushed) > maxBufferSize THEN Tail(pushed) ELSE pushed

\* Math.round(n / 100) * 100 for n >= 0: a half rounds up
roundToHundred(n) == ((n + 50) \div 100) * 100

\* `${r.model}:${tokenBucket}`
patternOf(r) == r.model \o ":" \o ToString(roundToHundred(r.tokensIn + r.tokensOut))

\* patternCounts.get(pattern) after the loop over recent
patternCount(recent, pattern) ==
    Cardinality({ i \in 1..Len(recent) : patternOf(recent[i]) = pattern })

\* the keys of patternCounts in insertion order: a pattern stands where it
\* first occurs in recent
firstOccurrences(recent) ==
    SelectSeq([i \in 1..Len(recent) |->
                  IF \E j \in 1..(i - 1) : patternOf(recent[j]) = patternOf(recent[i])
                  THEN "" ELSE patternOf(recent[i])],
              LAMBDA k : k # "")

\* a variant that asks for more than the threshold, as the header comment
\* of the file words it (">20 times")
repetitionAboveThreshold(recent, threshold) ==
    IF Len(recent) >= threshold
    THEN LET hits == SelectSeq(firstOccurrences(recent),
                               LAMBDA k : patternCount(recent, k) > threshold)
         IN  IF hits = <<>> THEN <<>>
             ELSE <<[type |-> "repetition", severity |-> "critical",
                     pattern |-> hits[1], count |-> patternCount(recent, hits[1])]>>
    ELSE <<>>

\* detector 3: the first pattern whose count reaches the threshold, then break
repetition(recent, threshold) ==
    IF Len(recent) >= threshold
    THEN LET hits == SelectSeq(firstOccurrences(recent),
                               LAMBDA k : patternCount(recent, k) >= threshold)
         IN  IF hits = <<>> THEN <<>>
             ELSE <<[type |-> "repetition", severity |-> "critical",
                     pattern |-> hits[1], count |-> patternCount(recent, hits[1])]>>
    ELSE <<>>

RECURSIVE SumCost(_)
\* reduce((s, r) => s + r.costUsd, 0)
SumCost(rows) ==
    IF rows = <<>> THEN 0 ELSE Head(rows).costUsd + SumCost(Tail(rows))

RECURSIVE SumCounts(_, _)
\* the sum of the counts of minuteBuckets
SumCounts(buckets, keys) ==
    IF keys = {} THEN 0
    ELSE LET k == CHOOSE x \in keys : TRUE
         IN  buckets[k] + SumCounts(buckets, keys \ {k})

\* detector 1: the cost of the current request
tokenExplosion(current) ==
    IF current.costUsd > anomalyConfig.tokenExplosionUsd
    THEN <<[type |-> "token_explosion", severity |-> "critical"]>>
    ELSE <<>>

\* detector 2: getBaselineRpm() is total / size, 0 for at most one bucket;
\* currentRate > baselineRpm * 5 * 10 is compared without the division
velocitySpike(recent, buckets) ==
    LET size == Cardinality(DOMAIN buckets)
        total == SumCounts(buckets, DOMAIN buckets)
        currentRate == Len(recent)
        spike == <<[type |-> "velocity_spike", severity |-> "warning"]>>
    IN  IF currentRate >= anomalyConfig.velocityThreshold
        THEN IF size > 1 /\ total > 0 /\ currentRate * size > total * 50
             THEN spike
             ELSE IF currentRate >= anomalyConfig.velocityThreshold
                  THEN spike ELSE <<>>
        ELSE <<>>

\* a variant that flags a rate of exactly twice the first half's
costAccelerationAtDouble(recent) ==
    IF Len(recent) >= CostAccelerationMin
    THEN LET mid == Len(recent) \div 2
             firstHalf == SubSeq(recent, 1, mid)
             secondHalf == SubSeq(recent, mid + 1, Len(recent))
             firstCost == SumCost(firstHalf)
             secondCost == SumCost(secondHalf)
             span(half) == LET d == half[Len(half)].timestamp - half[1].timestamp
                           IN  IF d = 0 THEN 1 ELSE d
         IN  IF /\ firstCost > 0
                /\ secondCost * span(firstHalf) >= 2 * firstCost * span(secondHalf)
                /\ secondCost > 1
             THEN <<[type |-> "cost_acceleration", severity |-> "warning"]>>
             ELSE <<>>
    ELSE <<>>

\* detector 4: the rates cost / duration of the two halves, compared without
\* the divisions (a duration of 0 counts as 1)
costAcceleration(recent) ==
    IF Len(recent) >= CostAccelerationMin
    THEN LET mid == Len(recent) \div 2
             firstHalf == SubSeq(recent, 1, mid)
             secondHalf == SubSeq(recent, mid + 1, Len(recent))
             firstCost == SumCost(firstHalf)
             secondCost == SumCost(secondHalf)
             span(half) == LET d == half[Len(half)].timestamp - half[1].timestamp
                           IN  IF d = 0 THEN 1 ELSE d
         IN  IF /\ firstCost > 0
                /\ secondCost * span(firstHalf) > 2 * firstCost * span(secondHalf)
                /\ secondCost > 1
             THEN <<[type |-> "cost_acceleration", severity |-> "warning"]>>
             ELSE <<>>
    ELSE <<>>

\* AnomalyDetector.analyze, with the ring and the buckets as they are after
\* the record was added
analyze(current, ring, buckets) ==
    LET windowStart == current.timestamp - anomalyConfig.windowMs
        recent == SelectSeq(ring, LAMBDA r : r.timestamp >= windowStart)
        anomalies == tokenExplosion(current) \o velocitySpike(recent, buckets)
                     \o repetition(recent, anomalyConfig.repetitionThreshold)
                     \o costAcceleration(recent)
    IN  [detected |-> Len(anomalies) > 0, anomalies |-> anomalies]

\* minuteBuckets after the record: its minute counted, the minutes more than
\* 60 before it deleted
countMinute(buckets, timestamp) ==
    LET minuteKey == timestamp \div MinuteMs
        counted == With(buckets, minuteKey,
                        IF minuteKey \in DOMAIN buckets
                        THEN buckets[minuteKey] + 1 ELSE 1)
        kept == { k \in DOMAIN counted : ~(k < minuteKey - BaselineMinutes) }
    IN  [k \in kept |-> counted[k]]

RecordAndAnalyze(entry) ==
    IF ~anomalyConfig.enabled
    THEN /\ anret' = [op |-> "recordAndAnalyze", recorded |-> FALSE,
                      result |-> [detected |-> FALSE, anomalies |-> <<>>],
                      pre |-> buffer]
         /\ UNCHANGED <<notAnomaly, anomalyConfig, buffer, minuteBuckets, anomalyNow>>
    ELSE LET record == [timestamp |-> anomalyNow, model |-> entry.model,
                        tokensIn |-> entry.tokensIn, tokensOut |-> entry.tokensOut,
                        costUsd |-> entry.costUsd]
             ring == pushRing(buffer, record)
             buckets == countMinute(minuteBuckets, record.timestamp)
         IN  /\ SumCounts(minuteBuckets, DOMAIN minuteBuckets) < MaxRecords
             /\ buffer' = ring
             /\ minuteBuckets' = buckets
             /\ anret' = [op |-> "recordAndAnalyze", recorded |-> TRUE,
                          result |-> analyze(record, ring, buckets),
                          pre |-> buffer]
             /\ UNCHANGED <<notAnomaly, anomalyConfig, anomalyNow>>

\* updateConfig({enabled})
AnomalyUpdateConfig(enabled) ==
    /\ enabled # anomalyConfig.enabled
    /\ anomalyConfig' = [anomalyConfig EXCEPT !.enabled = enabled]
    /\ anret' = [op |-> "updateConfig"]
    /\ UNCHANGED <<notAnomaly, buffer, minuteBuckets, anomalyNow>>

\* AnomalyDetector.clear
AnomalyClear ==
    /\ buffer # <<>>
    /\ buffer' = <<>>
    /\ minuteBuckets' = NoRows
    /\ anret' = [op |-> "clear"]
    /\ UNCHANGED <<notAnomaly, anomalyConfig, anomalyNow>>

AnomalyTick ==
    /\ anomalyNow < MaxAnomalyNow
    /\ anomalyNow' = anomalyNow + 1
    /\ anret' = [op |-> "tick"]
    /\ UNCHANGED <<notAnomaly, anomalyConfig, buffer, minuteBuckets>>

AnomalyStart ==
    /\ BudgetIdle
    /\ RestIdle
    /\ CacheIdle
    /\ KeyIdle /\ AlertIdle /\ DowngradeIdle
    /\ anomalyConfig \in AnomalyConfigs
    /\ buffer = <<>>
    /\ minuteBuckets = NoRows
    /\ anomalyNow = 0
    /\ anret = [op |-> "new"]

AnomalyNext ==
    \/ \E e \in Entries : RecordAndAnalyze(e)
    \/ \E b \in BOOLEAN : AnomalyUpdateConfig(b)
    \/ AnomalyClear
    \/ AnomalyTick

AnomalySpec == AnomalyStart /\ [][AnomalyNext]_vars

\* Date.now() a minute later
AnomalyMinuteTick ==
    /\ anomalyNow + MinuteMs <= MaxMinutes * MinuteMs
    /\ anomalyNow' = anomalyNow + MinuteMs
    /\ anret' = [op |-> "tick"]
    /\ UNCHANGED <<notAnomaly, anomalyConfig, buffer, minuteBuckets>>

\* a window of a tenth of a minute
ShortWindowMs == MinuteMs \div 10

\* an enabled detector with a short window, whose requests arrive over
\* several minutes
VelocityStart ==
    /\ BudgetIdle
    /\ RestIdle
    /\ CacheIdle
    /\ KeyIdle /\ AlertIdle /\ DowngradeIdle
    /\ anomalyConfig = [enabled |-> TRUE, velocityThreshold |-> VelocityThreshold,
                        tokenExplosionUsd |-> TokenExplosionUsd,
                        repetitionThreshold |-> RepetitionThreshold,
                        windowMs |-> ShortWindowMs]
    /\ buffer = <<>>
    /\ minuteBuckets = NoRows
    /\ anomalyNow = 0
    /\ anret = [op |-> "new"]

VelocityNext ==
    \/ \E e \in Entries : RecordAndAnalyze(e)
    \/ AnomalyMinuteTick
    \/ AnomalyClear

VelocitySpec == VelocityStart /\ [][VelocityNext]_vars

\* requests of one bucket that cost nothing, a dollar, or three
AccelEntries ==
    { [model |-> "x", tokensIn |-> 1000, tokensOut |-> 50, costUsd |-> c] :
        c \in {0, 1, 3} }

\* an enabled detector whose window holds the whole run of its clock
AccelStart ==
    /\ BudgetIdle
    /\ RestIdle
    /\ CacheIdle
    /\ KeyIdle /\ AlertIdle /\ DowngradeIdle
    /\ anomalyConfig = [enabled |-> TRUE, velocityThreshold |-> VelocityThreshold,
                        tokenExplosionUsd |-> TokenExplosionUsd,
                        repetitionThreshold |-> RepetitionThreshold,
                        windowMs |-> MaxAnomalyNow]
    /\ buffer = <<>>
    /\ minuteBuckets = NoRows
    /\ anomalyNow = 0
    /\ anret = [op |-> "new"]

AccelNext ==
    \/ \E e \in AccelEntries : RecordAndAnalyze(e)
    \/ AnomalyTick

AccelSpec == AccelStart /\ [][AccelNext]_vars

\* ---- properties of the anomaly detector ----

\* C15: after any sequence of recordAndAnalyze calls the ring holds at most
\* maxBufferSize entries (100 in the source), and an entry that arrives at a
\* full ring takes the place of the oldest one: the ring after the call is the
\* ring before it without its first entry, followed by the new entry.
C15_RingBoundedOldestDropped ==
    /\ Len(buffer) <= maxBufferSize
    /\ \A i, j \in DOMAIN buffer : i <= j => buffer[i].timestamp <= buffer[j].timestamp
    /\ anret.op = "recordAndAnalyze" /\ anret.recorded =>
         /\ buffer # <<>>
         /\ buffer[Len(buffer)].timestamp = anomalyNow
         /\ SubSeq(buffer, 1, Len(buffer) - 1)
              = IF Len(anret.pre) = maxBufferSize THEN Tail(anret.pre) ELSE anret.pre

\* an entry was recorded at a full ring, and the entry dropped differs from
\* the one that follows it
C15_Witness ==
    /\ anret.op = "recordAndAnalyze"
    /\ anret.recorded
    /\ Len(anret.pre) = maxBufferSize
    /\ anret.pre[1] # anret.pre[2]
    /\ Len(buffer) = maxBufferSize

\* the (model, rounded token count) bucket of a ring entry
bucketOf(r) == <<r.model, roundToHundred(r.tokensIn + r.tokensOut)>>

\* the positions of the ring whose entries are inside the analysis window of
\* a record made now
InWindow == { i \in DOMAIN buffer : buffer[i].timestamp >= anomalyNow - anomalyConfig.windowMs }

\* some bucket holds at least repetitionThreshold of the in-window entries
BucketReachesThreshold ==
    \E i \in InWindow :
        Cardinality({ j \in InWindow : bucketOf(buffer[j]) = bucketOf(buffer[i]) })
            >= anomalyConfig.repetitionThreshold

Spikes == SelectSeq(anret.result.anomalies, LAMBDA a : a.type = "velocity_spike")

\* a baseline is available: more than one minute bucket is kept
BaselineAvailable == Cardinality(DOMAIN minuteBuckets) > 1

\* the in-window count is more than 10 times what the baseline (requests per
\* minute, averaged over the kept buckets) gives over the window; compared
\* without the divisions
RateExceedsTenTimesBaseline ==
    Cardinality(InWindow) * Cardinality(DOMAIN minuteBuckets) * MinuteMs
        > 10 * SumCounts(minuteBuckets, DOMAIN minuteBuckets) * anomalyConfig.windowMs

\* C36: a recordAndAnalyze call that records its entry reports a
\* velocity_spike, of severity warning and at most one per call, when the
\* in-window entry count is at least velocityThreshold, and also when a
\* baseline is available and the in-window count exceeds 10 times that
\* baseline over the window.
C36_VelocitySpikeAtThresholdOrBaseline ==
    anret.op = "recordAndAnalyze" /\ anret.recorded =>
        /\ Len(Spikes) <= 1
        /\ \A i \in DOMAIN Spikes : Spikes[i].severity = "warning"
        /\ Cardinality(InWindow) >= anomalyConfig.velocityThreshold => Len(Spikes) = 1
        /\ BaselineAvailable /\ RateExceedsTenTimesBaseline => Len(Spikes) = 1

\* the in-window entries of the ring, in order, and their two halves
Recent == SelectSeq(buffer, LAMBDA r : r.timestamp >= anomalyNow - anomalyConfig.windowMs)
FirstHalf == SubSeq(Recent, 1, Len(Recent) \div 2)
SecondHalf == SubSeq(Recent, Len(Recent) \div 2 + 1, Len(Recent))

\* the time from the first to the last entry of a half; a half whose entries
\* share one timestamp counts as one millisecond long
Duration(half) ==
    IF half[Len(half)].timestamp = half[1].timestamp THEN 1
    ELSE half[Len(half)].timestamp - half[1].timestamp

\* the second half's cost per unit time is more than twice the first half's
SecondRateMoreThanTwiceFirst ==
    SumCost(SecondHalf) * Duration(FirstHalf)
        > 2 * SumCost(FirstHalf) * Duration(SecondHalf)

CostAccelerationReported ==
    \E i \in DOMAIN anret.result.anomalies :
        anret.result.anomalies[i].type = "cost_acceleration"

\* C37 as stated: with enough in-window entries, cost_acceleration is
\* reported exactly when the second half's cost per unit time is more than
\* twice the first half's and the second half's summed cost is more than 1.
C37_CostAccelerationExactly ==
    (anret.op = "recordAndAnalyze" /\ anret.recorded
        /\ Len(Recent) >= CostAccelerationMin) =>
        (CostAccelerationReported
            <=> (SecondRateMoreThanTwiceFirst /\ SumCost(SecondHalf) > 1))

\* C37: with enough in-window entries (10 in the source) split into a first
\* and a second half by order, recordAndAnalyze reports cost_acceleration
\* exactly when the first half's summed cost is positive, the second half's
\* cost per unit time is more than twice the first half's, and the second
\* half's summed cost is more than 1 USD; with fewer entries it reports none.
C37_CostAccelerationWhenFirstHalfCosts ==
    anret.op = "recordAndAnalyze" /\ anret.recorded =>
        IF Len(Recent) >= CostAccelerationMin
        THEN CostAccelerationReported
                <=> /\ SumCost(FirstHalf) > 0
                    /\ SecondRateMoreThanTwiceFirst
                    /\ SumCost(SecondHalf) > 1
        ELSE ~CostAccelerationReported

\* an acceleration was reported for halves of different durations, where the
\* second half cost less than twice the first
C37_Witness ==
    /\ anret.op = "recordAndAnalyze"
    /\ anret.recorded
    /\ Len(Recent) >= CostAccelerationMin
    /\ CostAccelerationReported
    /\ Duration(FirstHalf) > Duration(SecondHalf)
    /\ SumCost(SecondHalf) < 2 * SumCost(FirstHalf)

\* ---------------------------------------------------------------------
\* Budget-driven model downgrade (downgrade.ts)
\* ---------------------------------------------------------------------

DefaultThresholdPercent == 80   \* DEFAULT_DOWNGRADE_CONFIG.thresholdPercent

\* DEFAULT_DOWNGRADE_MAPPING: expensive -> cheaper
DEFAULT_DOWNGRADE_MAPPING ==
    [k \in { "claude-opus-4-6", "claude-opus-4-20250514", "claude-opus-4-latest",
             "claude-3-opus-20240229", "claude-sonnet-4-6", "claude-sonnet-4-20250514",
             "claude-sonnet-4-latest", "claude-3-5-sonnet-20241022",
             "claude-3-5-sonnet-20240620", "claude-3-5-sonnet-latest",
             "gpt-4o", "gpt-4-turbo", "gpt-4", "o1",
             "gemini-2.5-pro", "gemini-1.5-pro" } |->
        CASE k = "claude-opus-4-6" -> "claude-sonnet-4-6"
          [] k = "claude-opus-4-20250514" -> "claude-sonnet-4-20250514"
          [] k = "claude-opus-4-latest" -> "claude-sonnet-4-latest"
          [] k = "claude-3-opus-20240229" -> "claude-3-5-sonnet-20241022"
          [] k = "claude-sonnet-4-6" -> "claude-3-5-haiku-20241022"
          [] k = "claude-sonnet-4-20250514" -> "claude-3-5-haiku-20241022"
          [] k = "claude-sonnet-4-latest" -> "claude-3-5-haiku-latest"
          [] k = "claude-3-5-sonnet-20241022" -> "claude-3-5-haiku-20241022"
          [] k = "claude-3-5-sonnet-20240620" -> "claude-3-5-haiku-20241022"
          [] k = "claude-3-5-sonnet-latest" -> "claude-3-5-haiku-latest"
          [] k = "gpt-4o" -> "gpt-4o-mini"
          [] k = "gpt-4-turbo" -> "gpt-4o-mini"
          [] k = "gpt-4" -> "gpt-4o-mini"
          [] k = "o1" -> "o3-mini"
          [] k = "gemini-2.5-pro" -> "gemini-2.0-flash"
          [] k = "gemini-1.5-pro" -> "gemini-1.5-flash"]

\* a mapping without chains, as in a user's config
SingleStepMapping == [k \in {"claude-opus-4-6"} |-> "claude-sonnet-4-6"]

\* DowngradeConfig values: the default mapping or a user's, enabled or not
DowngradeConfigs ==
    [enabled : BOOLEAN, thresholdPercent : {DefaultThresholdPercent},
     mapping : {DEFAULT_DOWNGRADE_MAPPING, SingleStepMapping}]

\* members every object literal inherits from Object.prototype
ObjectPrototypeKeys == {"constructor", "toString"}

\* the value of an inherited member: a function, not a string
Inherited(name) == [t |-> "function", inherited |-> name]

\* the requested models: every key and every target of the default mapping, a
\* model no mapping knows, and names of inherited members
Models ==
    DOMAIN DEFAULT_DOWNGRADE_MAPPING
      \cup { DEFAULT_DOWNGRADE_MAPPING[k] : k \in DOMAIN DEFAULT_DOWNGRADE_MAPPING }
      \cup {"unknown-model"} \cup ObjectPrototypeKeys

\* the budget utilization, below, at and above the threshold
BudgetPercents ==
    {DefaultThresholdPercent - 1, DefaultThresholdPercent, DefaultThresholdPercent + 1}

\* config.mapping[model]: the mapping's own entry, else the member inherited
\* from Object.prototype, else undefined; a key that is not a string is
\* converted to one that names no property
lookup(mapping, model) ==
    IF model.t # "string" THEN Undefined
    ELSE IF model.s \in DOMAIN mapping THEN Str(mapping[model.s])
    ELSE IF model.s \in ObjectPrototypeKeys THEN Inherited(model.s)
    ELSE Undefined

\* !cheaper
falsy(v) == v = Undefined \/ v = Str("")

\* budgetPercent.toFixed(1) of an integer
toFixed1(n) == ToString(n) \o ".0"

checkDowngrade(model, budgetPercent, cfg) ==
    IF ~cfg.enabled
    THEN [downgraded |-> FALSE, originalModel |-> model, newModel |-> model,
          reason |-> ""]
    ELSE IF budgetPercent < cfg.thresholdPercent
    THEN [downgraded |-> FALSE, originalModel |-> model, newModel |-> model,
          reason |-> ""]
    ELSE LET cheaper == lookup(cfg.mapping, model)
         IN  IF falsy(cheaper)
             THEN [downgraded |-> FALSE, originalModel |-> model,
                   newModel |-> model, reason |-> "no mapping available"]
             ELSE [downgraded |-> TRUE, originalModel |-> model,
                   newModel |-> cheaper,
                   reason |-> "budget at " \o toFixed1(budgetPercent)
                                \o "% (threshold: "
                                \o ToString(cfg.thresholdPercent) \o "%)"]

\* one call of checkDowngrade, and the call that applies it again to the model
\* the first one produced
CheckDowngrade(model, budgetPercent, cfg) ==
    LET result == checkDowngrade(Str(model), budgetPercent, cfg)
    IN  /\ dret' = [op |-> "checkDowngrade", model |-> model,
                    budgetPercent |-> budgetPercent, config |-> cfg,
                    result |-> result,
                    again |-> checkDowngrade(result.newModel, budgetPercent, cfg)]
        /\ UNCHANGED notDowngrade

DowngradeStart ==
    /\ BudgetIdle
    /\ RestIdle
    /\ CacheIdle
    /\ KeyIdle /\ AlertIdle /\ AnomalyIdle
    /\ dret = [op |-> "new"]

DowngradeNext ==
    \E model \in Models, budgetPercent \in BudgetPercents, cfg \in DowngradeConfigs :
        CheckDowngrade(model, budgetPercent, cfg)

DowngradeSpec == DowngradeStart /\ [][DowngradeNext]_vars

\* ---- properties of the downgrade ----

\* the conditions under which the mapping has an entry for the model and the
\* config asks for the downgrade
ShouldDowngrade ==
    /\ dret.config.enabled
    /\ dret.budgetPercent >= dret.config.thresholdPercent
    /\ dret.model \in DOMAIN dret.config.mapping

\* C17: checkDowngrade returns downgraded = true with newModel = mapping[model]
\* if and only if the config is enabled, budgetPercent >= thresholdPercent and
\* the mapping has an entry for the model; in every other case downgraded is
\* false and newModel is the requested model.
C17_DowngradeIffEnabledOverThresholdMapped ==
    dret.op = "checkDowngrade" =>
        /\ dret.result.downgraded <=> ShouldDowngrade
        /\ ShouldDowngrade =>
              dret.result.newModel = Str(dret.config.mapping[dret.model])
        /\ ~ShouldDowngrade => dret.result.newModel = Str(dret.model)

\* C18: applying checkDowngrade again to the model the first application
\* produced, with the same budgetPercent and config, yields the same newModel.
C18_DowngradeIdempotent ==
    dret.op = "checkDowngrade" => dret.again.newModel = dret.result.newModel

----------------------------------------------------------------------------
(* The config module (src/unnamed/part_010)                                 *)
(*                                                                          *)
(* A ProxyConfig is [device_id, telemetry_enabled, api_key, updated_at];    *)
(* first_run_complete, config_version, created_at and mesh are read and     *)
(* written the way telemetry_enabled is.  A file that holds JSON other than *)
(* an object counts as Corrupt: loadConfig fails on it inside its try.      *)

MaxDevices == 2        \* device ids that generateDeviceId draws in one run
MaxCfgNow == 1         \* the clock of the config module runs over 0..MaxCfgNow

NoDevice == 0          \* device_id absent from the file
NoKey == ""            \* api_key absent from the file
ApiKeys == {"rp_key"}  \* the keys setApiKey is called with

existsSync(file) == file.kind # "missing"
parses(file) == file.kind = "json"

\* a config.json written by a release that had no device_id
LegacyConfig ==
    [device_id |-> NoDevice, telemetry_enabled |-> TRUE, api_key |-> NoKey,
     updated_at |-> 0]

\* createDefaultConfig, with the device id that generateDeviceId draws
createDefaultConfig(device, t) ==
    [device_id |-> device, telemetry_enabled |-> FALSE, api_key |-> NoKey,
     updated_at |-> t]

hasValidCredentials(cred) == parses(cred) /\ cred.value.apiKey # ""

\* saveConfig: the files it leaves and the object it has stamped
saveConfig(cfg, primary, backup, t) ==
    LET stamped == [cfg EXCEPT !.updated_at = t]
    IN  [config |-> stamped,
         backupFile |-> IF existsSync(primary) THEN primary ELSE backup,
         tmpWritten |-> {Json(stamped)},
         configFile |-> Json(stamped)]

\* a variant that takes the fresh-config branch whenever config.json fails
loadConfigNoRestore(primary, backup, cred, drawn, t) ==
    IF parses(primary)
    THEN LET migrate == primary.value.device_id = NoDevice
         IN  [branch |-> "primary",
              config |-> IF migrate
                         THEN [primary.value EXCEPT !.device_id = drawn + 1]
                         ELSE primary.value,
              configFile |-> primary, backupFile |-> backup, tmpWritten |-> {},
              drawn |-> IF migrate THEN drawn + 1 ELSE drawn]
    ELSE LET fresh == createDefaultConfig(drawn + 1, t)
             saved == saveConfig(
                        IF hasValidCredentials(cred)
                        THEN [fresh EXCEPT !.telemetry_enabled = TRUE]
                        ELSE fresh, primary, backup, t)
         IN  [branch |-> "default", config |-> saved.config,
              configFile |-> saved.configFile, backupFile |-> saved.backupFile,
              tmpWritten |-> saved.tmpWritten, drawn |-> drawn + 1]

\* loadConfig: the branch it took, the object it returns, the files it leaves
loadConfig(primary, backup, cred, drawn, t) ==
    IF parses(primary)
    THEN LET migrate == primary.value.device_id = NoDevice
         IN  [branch |-> "primary",
              config |-> IF migrate
                         THEN [primary.value EXCEPT !.device_id = drawn + 1]
                         ELSE primary.value,
              configFile |-> primary, backupFile |-> backup, tmpWritten |-> {},
              drawn |-> IF migrate THEN drawn + 1 ELSE drawn]
    ELSE IF parses(backup)
    THEN LET saved == saveConfig(backup.value, primary, backup, t)
         IN  [branch |-> "backup", config |-> saved.config,
              configFile |-> saved.configFile, backupFile |-> saved.backupFile,
              tmpWritten |-> saved.tmpWritten, drawn |-> drawn]
    ELSE LET fresh == createDefaultConfig(drawn + 1, t)
             saved == saveConfig(
                        IF hasValidCredentials(cred)
                        THEN [fresh EXCEPT !.telemetry_enabled = TRUE]
                        ELSE fresh, primary, backup, t)
         IN  [branch |-> "default", config |-> saved.config,
              configFile |-> saved.configFile, backupFile |-> saved.backupFile,
              tmpWritten |-> saved.tmpWritten, drawn |-> drawn + 1]

\* Object.assign(config, updates)
assign(cfg, updates) ==
    [f \in DOMAIN cfg |-> IF f \in DOMAIN updates THEN updates[f] ELSE cfg[f]]

\* updateConfig: loadConfig, Object.assign, saveConfig
updateConfig(updates, primary, backup, cred, drawn, t) ==
    LET loaded == loadConfig(primary, backup, cred, drawn, t)
        saved == saveConfig(assign(loaded.config, updates), loaded.configFile,
                            loaded.backupFile, t)
    IN  [branch |-> loaded.branch, config |-> saved.config,
         configFile |-> saved.configFile, backupFile |-> saved.backupFile,
         tmpWritten |-> loaded.tmpWritten \cup saved.tmpWritten,
         drawn |-> loaded.drawn]

\* what a call found on disk
ConfigSnapshot ==
    [configFile |-> configFile, backupFile |-> backupFile, credFile |-> credFile]

\* the call has run: its files are on disk and its result is with the caller
Completes(op, r, cred) ==
    /\ r.drawn <= MaxDevices
    /\ configDir' = [configDir EXCEPT
          !.configFile = r.configFile,
          !.backupFile = r.backupFile,
          !.credFile = cred,
          !.nextDevice = r.drawn,
          !.cfret = [op |-> op, branch |-> r.branch, result |-> r.config,
                     tmpWritten |-> r.tmpWritten, pre |-> ConfigSnapshot]]
    /\ UNCHANGED notConfig

LoadConfig ==
    Completes("loadConfig",
              loadConfig(configFile, backupFile, credFile, nextDevice, cfgNow),
              credFile)

\* enableTelemetry / disableTelemetry
SetTelemetry(on) ==
    Completes("updateConfig",
              updateConfig([telemetry_enabled |-> on], configFile, backupFile,
                           credFile, nextDevice, cfgNow),
              credFile)

\* setApiKey: updateConfig({api_key}), then credentials.json inside a try
SetApiKey(key) ==
    Completes("setApiKey",
              updateConfig([api_key |-> key], configFile, backupFile,
                           credFile, nextDevice, cfgNow),
              IF ~existsSync(credFile) THEN Json([apiKey |-> key])
              ELSE IF parses(credFile)
                   THEN Json([credFile.value EXCEPT !.apiKey = key])
                   ELSE credFile)

\* what happens to the directory from outside: a file is removed or damaged
FileLost(name, how) ==
    /\ IF name = "config.json"
       THEN /\ existsSync(configFile) /\ configFile # how
            /\ configDir' = [configDir EXCEPT !.configFile = how,
                                              !.cfret = [op |-> "lost"]]
       ELSE /\ existsSync(backupFile) /\ backupFile # how
            /\ configDir' = [configDir EXCEPT !.backupFile = how,
                                              !.cfret = [op |-> "lost"]]
    /\ UNCHANGED notConfig

ConfigTick ==
    /\ cfgNow < MaxCfgNow
    /\ configDir' = [configDir EXCEPT !.cfgNow = cfgNow + 1,
                                      !.cfret = [op |-> "tick"]]
    /\ UNCHANGED notConfig

ConfigStart ==
    /\ CoreIdle
    /\ CooldownIdle /\ CascadeIdle /\ PipelineIdle /\ LimiterIdle /\ MeshIdle
    /\ configDir \in
          [ configFile : {Missing, Json(LegacyConfig)},
            backupFile : {Missing},
            credFile : {Missing, Corrupt, Json([apiKey |-> ""])},
            cfgNow : {0},
            nextDevice : {0},
            cfret : {[op |-> "new"]} ]

ConfigNext ==
    \/ LoadConfig
    \/ \E on \in BOOLEAN : SetTelemetry(on)
    \/ \E key \in ApiKeys : SetApiKey(key)
    \/ \E name \in {"config.json", "config.json.bak"}, how \in {Missing, Corrupt} :
          FileLost(name, how)
    \/ ConfigTick

ConfigSpec == ConfigStart /\ [][ConfigNext]_vars

----------------------------------------------------------------------------
(* Properties of the config module *)

\* the config without its timestamp of last update, which every save renews
Settings(cfg) == [f \in DOMAIN cfg \ {"updated_at"} |-> cfg[f]]

C23_ApiKeyOnlyInCredentials ==
    /\ parses(configFile) => configFile.value.api_key = NoKey
    /\ parses(backupFile) => backupFile.value.api_key = NoKey
    /\ cfret.op \in {"loadConfig", "updateConfig", "setApiKey"} =>
          \A w \in cfret.tmpWritten : w.value.api_key = NoKey

----------------------------------------------------------------------------
(* saveConfig and loadConfig one file operation at a time, in a process     *)
(* that can be interrupted between any two of them                          *)

tmpFile == configDir.tmpFile         \* ~/.relayplane/config.json.tmp
savePc == configDir.savePc           \* the next file operation of the running call
saving == configDir.saving           \* the config the running saveConfig writes
heldAtBegin == configDir.heldAtBegin \* a file parsed when the running call began

\* config.json or config.json.bak holds a parseable config
HoldsConfig == parses(configFile) \/ parses(backupFile)

\* saveConfig(cfg) is entered: config.updated_at is stamped
SaveBegins(cfg) ==
    /\ savePc = "idle"
    /\ configDir' = [configDir EXCEPT
          !.savePc = "backup",
          !.saving = [cfg EXCEPT !.updated_at = cfgNow],
          !.heldAtBegin = HoldsConfig,
          !.cfret = [op |-> "saveConfig"]]
    /\ UNCHANGED notConfig

\* loadConfig is entered: it returns the primary config, or goes on to
\* saveConfig with the backup's config or with a fresh one
LoadBegins ==
    /\ savePc = "idle"
    /\ LET r == loadConfig(configFile, backupFile, credFile, nextDevice, cfgNow)
       IN  /\ r.drawn <= MaxDevices
           /\ configDir' = [configDir EXCEPT
                 !.savePc = IF r.branch = "primary" THEN "idle" ELSE "backup",
                 !.saving = r.config,
                 !.heldAtBegin = HoldsConfig,
                 !.nextDevice = r.drawn,
                 !.cfret = [op |-> "loadConfig", branch |-> r.branch]]
    /\ UNCHANGED notConfig

\* if (existsSync(CONFIG_FILE)) try { copyFileSync(CONFIG_FILE, CONFIG_BACKUP) }
\* catch {}: copied is whether the copy succeeds
CopyToBackup(copied) ==
    /\ savePc = "backup"
    /\ configDir' = [configDir EXCEPT
          !.backupFile = IF existsSync(configFile) /\ copied
                         THEN configFile ELSE backupFile,
          !.savePc = "write"]
    /\ UNCHANGED notConfig

\* writeFileSync(CONFIG_TMP, JSON.stringify(config, null, 2))
WriteTmp ==
    /\ savePc = "write"
    /\ configDir' = [configDir EXCEPT !.tmpFile = Json(saving), !.savePc = "rename"]
    /\ UNCHANGED notConfig

\* renameSync(CONFIG_TMP, CONFIG_FILE)
RenameTmp ==
    /\ savePc = "rename"
    /\ configDir' = [configDir EXCEPT !.configFile = tmpFile, !.tmpFile = Missing,
                                      !.savePc = "idle"]
    /\ UNCHANGED notConfig

\* the process is killed inside the call; the files stay as they are
Interrupted ==
    /\ savePc # "idle"
    /\ configDir' = [configDir EXCEPT !.savePc = "idle",
                                      !.cfret = [op |-> "interrupted"]]
    /\ UNCHANGED notConfig

\* a file is removed or damaged from outside while no call runs
FileLostBetweenCalls(name, how) ==
    /\ savePc = "idle"
    /\ FileLost(name, how)

SaveStepsStart ==
    /\ CoreIdle
    /\ CooldownIdle /\ CascadeIdle /\ PipelineIdle /\ LimiterIdle /\ MeshIdle
    /\ configDir \in
          [ configFile : {Missing, Json(LegacyConfig)},
            backupFile : {Missing},
            credFile : {Missing},
            cfgNow : {0},
            nextDevice : {0},
            cfret : {[op |-> "new"]},
            tmpFile : {Missing},
            savePc : {"idle"},
            saving : {LegacyConfig},
            heldAtBegin : {FALSE} ]

SaveStepsNext ==
    \/ \E on \in BOOLEAN :
          SaveBegins([createDefaultConfig(1, cfgNow) EXCEPT !.telemetry_enabled = on])
    \/ LoadBegins
    \/ \E copied \in BOOLEAN : CopyToBackup(copied)
    \/ WriteTmp
    \/ RenameTmp
    \/ Interrupted
    \/ \E name \in {"config.json", "config.json.bak"}, how \in {Missing, Corrupt} :
          FileLostBetweenCalls(name, how)
    \/ ConfigTick

SaveStepsSpec == SaveStepsStart /\ [][SaveStepsNext]_vars

\* C39: if config.json or config.json.bak holds a parseable config when a
\* saveConfig or loadConfig begins, then after every file operation of that
\* call, wherever the process is interrupted, at least one of the two files
\* holds a parseable config.
C39_ParseableConfigSurvivesEveryStep ==
    (savePc # "idle" /\ heldAtBegin) => HoldsConfig

----------------------------------------------------------------------------
(* The provider cooldown tracker (specification 4.8; README "Provider       *)
(* Cooldowns / Reliability")                                                *)
(*                                                                          *)
(* A cooldown record is {failures: [timestamps within window],              *)
(* cooled_until_ms?}; it is created on the first failure and reset by a     *)
(* success.  The router forwards one request at a time here.                *)

AllowedFails == 2      \* reliability.cooldowns.allowedFails
WindowSeconds == 2     \* reliability.cooldowns.windowSeconds
CooldownSeconds == 2   \* reliability.cooldowns.cooldownSeconds
MaxCdNow == 5          \* the clock of the tracker runs over 0..MaxCdNow

Providers == <<"anthropic", "openai">>   \* the providers of the requested model
NoProvider == ""
NotCooled == -1        \* cooled_until_ms absent

NoRecord == [failures |-> <<>>, cooledUntil |-> NotCooled]
recordOf(provider) ==
    IF provider \in DOMAIN cooldowns THEN cooldowns[provider] ELSE NoRecord

\* the failures of the rolling window that ends at t
inWindow(failures, t) == SelectSeq(failures, LAMBDA f : f > t - WindowSeconds)

\* a variant that lets the provider back one second early
isAvailableEarly(provider, t) ==
    \/ recordOf(provider).cooledUntil = NotCooled
    \/ t >= recordOf(provider).cooledUntil - 1

\* the provider is not in quarantine at t
isAvailable(provider, t) ==
    \/ recordOf(provider).cooledUntil = NotCooled
    \/ t >= recordOf(provider).cooledUntil

\* the record after a failure at t
recordFailure(rec, t) ==
    LET failures == inWindow(Append(rec.failures, t), t)
    IN  [failures |-> failures,
         cooledUntil |-> IF Len(failures) >= AllowedFails
                         THEN t + CooldownSeconds ELSE rec.cooledUntil]

\* the record after a success: the failure counter is cleared
recordSuccess(rec) == [rec EXCEPT !.failures = <<>>]

RECURSIVE firstAvailable(_, _)
\* the first provider of the list that is not in quarantine
firstAvailable(list, t) ==
    IF list = <<>> THEN NoProvider
    ELSE IF isAvailable(Head(list), t) THEN Head(list)
    ELSE firstAvailable(Tail(list), t)

\* the router picks a provider for a request, or answers 503 when all are cooled
SelectProvider(candidates) ==
    /\ inflight = NoProvider
    /\ LET chosen == firstAvailable(candidates, cdNow)
       IN  tracker' = [tracker EXCEPT
              !.inflight = chosen,
              !.cdret = [op |-> "select", provider |-> chosen,
                         status |-> IF chosen = NoProvider THEN 503 ELSE 0]]
    /\ UNCHANGED notCooldown

\* the forwarded request fails: transport error or provider 5xx
ProviderFails ==
    /\ inflight # NoProvider
    /\ LET rec == recordFailure(recordOf(inflight), cdNow)
           trips == Len(rec.failures) >= AllowedFails
       IN  tracker' = [tracker EXCEPT
              !.cooldowns = With(cooldowns, inflight, rec),
              !.tripped = IF trips THEN With(tripped, inflight, cdNow)
                          ELSE tripped,
              !.cdret = [op |-> "failure", provider |-> inflight,
                         tripped |-> trips],
              !.failLog = With(failLog, inflight,
                               Append(IF inflight \in DOMAIN failLog
                                      THEN failLog[inflight] ELSE <<>>, cdNow)),
              !.inflight = NoProvider]
    /\ UNCHANGED notCooldown

\* the forwarded request succeeds
ProviderSucceeds ==
    /\ inflight # NoProvider
    /\ tracker' = [tracker EXCEPT
          !.cooldowns = With(cooldowns, inflight,
                             recordSuccess(recordOf(inflight))),
          !.failLog = With(failLog, inflight, <<>>),
          !.cdret = [op |-> "success", provider |-> inflight],
          !.inflight = NoProvider]
    /\ UNCHANGED notCooldown

CooldownTick ==
    /\ cdNow < MaxCdNow
    /\ tracker' = [tracker EXCEPT !.cdNow = cdNow + 1,
                                  !.cdret = [op |-> "tick"]]
    /\ UNCHANGED notCooldown

CooldownStart ==
    /\ CoreIdle
    /\ ConfigIdle /\ CascadeIdle /\ PipelineIdle /\ LimiterIdle /\ MeshIdle
    /\ tracker = [ cooldowns |-> NoRows, inflight |-> NoProvider, cdNow |-> 0,
                   cdret |-> [op |-> "new"], tripped |-> NoRows,
                   failLog |-> NoRows ]

CooldownNext ==
    \/ \E c \in {Providers, Reverse(Providers)} : SelectProvider(c)
    \/ ProviderFails
    \/ ProviderSucceeds
    \/ CooldownTick

CooldownSpec == CooldownStart /\ [][CooldownNext]_vars

----------------------------------------------------------------------------
(* Properties of the cooldown tracker *)

ProviderSet == { Providers[i] : i \in 1..Len(Providers) }

\* the provider is inside the cooldownSeconds that follow its last trip
InQuarantine(provider) ==
    /\ provider \in DOMAIN tripped
    /\ cdNow < tripped[provider] + CooldownSeconds

----------------------------------------------------------------------------
(* Cascade routing (specification 4.7 and "Cascade as a small state         *)
(* machine"; README "Cascade Mode")                                         *)
(*                                                                          *)
(* The models of the list are known by their index; cascadeConfig.models is *)
(* the length of the list.                                                  *)

MaxModels == 3             \* the longest routing.cascade.models
MaxMaxEscalations == 2     \* the largest routing.cascade.maxEscalations

EscalateOn == {"uncertainty", "refusal", "error"}

\* what a forward comes back with: a transport error, or a response body
Responses ==
    [error : {TRUE}, body : {"none"}]
        \cup [error : {FALSE}, body : {"plain", "hedging", "refusal"}]

\* trigger detection, a function of the response body and the transport error
trigger(response, escalateOn) ==
    CASE escalateOn = "error" -> response.error
      [] escalateOn = "uncertainty" -> response.body = "hedging"
      [] escalateOn = "refusal" -> response.body = "refusal"

\* a variant that looks only at the length of the model list
canEscalateWhileModelsLast(c, cfg) == c.idx + 1 < cfg.models

\* (c): there is a next model and escalations are left
canEscalate(c, cfg) ==
    /\ c.idx + 1 < cfg.models
    /\ c.escalations < cfg.maxEscalations

\* (a) Initial -> Forwarding(0)
CascadeBegin ==
    /\ cascade.state = "Initial"
    /\ cascadeRun' = [cascadeRun EXCEPT
          !.cascade = [state |-> "Forwarding", idx |-> 0, escalations |-> 0]]
    /\ UNCHANGED notCascade

\* (b) Forwarding(i) -> Escalating(i) on a trigger, (d) Forwarding -> Done
CascadeResponse(response) ==
    /\ cascade.state = "Forwarding"
    /\ cascadeRun' = [cascadeRun EXCEPT
          !.cascade.state = IF trigger(response, cascadeConfig.escalateOn)
                            THEN "Escalating" ELSE "Done"]
    /\ UNCHANGED notCascade

\* (c) Escalating(i) -> Forwarding(i+1), else Exhausted
CascadeEscalate ==
    /\ cascade.state = "Escalating"
    /\ cascadeRun' = [cascadeRun EXCEPT
          !.cascade = IF canEscalate(cascade, cascadeConfig)
                      THEN [state |-> "Forwarding", idx |-> cascade.idx + 1,
                            escalations |-> cascade.escalations + 1]
                      ELSE [cascade EXCEPT !.state = "Exhausted"]]
    /\ UNCHANGED notCascade

CascadeStart ==
    /\ CoreIdle
    /\ ConfigIdle /\ CooldownIdle /\ PipelineIdle /\ LimiterIdle /\ MeshIdle
    /\ cascadeRun \in
          [ cascadeConfig : [models : 1..MaxModels, escalateOn : EscalateOn,
                             maxEscalations : 0..MaxMaxEscalations],
            cascade : {[state |-> "Initial", idx |-> 0, escalations |-> 0]} ]

CascadeNext ==
    \/ CascadeBegin
    \/ \E r \in Responses : CascadeResponse(r)
    \/ CascadeEscalate

\* every forward comes back, with a response or with a transport error, and
\* the router then takes its step
CascadeSpec == CascadeStart /\ [][CascadeNext]_vars /\ WF_vars(CascadeNext)

----------------------------------------------------------------------------
(* Properties of cascade routing *)

\* the step is one of the transitions (a) to (d)
CascadeTransition ==
    LET from == cascade
        to == cascade'
    IN  \/ /\ from.state = "Initial"
           /\ to.state = "Forwarding" /\ to.idx = 0
        \/ /\ from.state = "Forwarding"
           /\ to.state \in {"Escalating", "Done"} /\ to.idx = from.idx
        \/ /\ from.state = "Escalating"
           /\ to.state = "Forwarding" /\ to.idx = from.idx + 1
        \/ /\ from.state = "Escalating"
           /\ to.state = "Exhausted" /\ to.idx = from.idx

\* C25: a cascade request moves only along Initial -> Forwarding(0),
\* Forwarding(i) -> Escalating(i), Escalating(i) -> Forwarding(i+1) and ends in
\* Done or Exhausted; the model index only increases, the number of
\* escalations exceeds neither maxEscalations nor the length of the model
\* list, and every run reaches Done or Exhausted.
C25_CascadeWalksForwardAndEnds ==
    /\ [][CascadeTransition /\ cascade'.idx >= cascade.idx]_cascade
    /\ [](/\ cascade.escalations <= cascadeConfig.maxEscalations
          /\ cascade.escalations <= cascadeConfig.models
          /\ cascade.idx < cascadeConfig.models)
    /\ <>(cascade.state \in {"Done", "Exhausted"})

\* the request has used every escalation it was allowed and is out of them,
\* with models left in the list
C25_Witness ==
    /\ cascade.state = "Exhausted"
    /\ cascade.escalations = cascadeConfig.maxEscalations
    /\ cascade.escalations > 0
    /\ cascade.idx + 1 < cascadeConfig.models

----------------------------------------------------------------------------
(* The pipeline orchestrator (specification 2 and 4.1)                      *)
(*                                                                          *)
(* The orchestrator drives the stages of the table in strict order; a stage *)
(* short-circuits with a response or falls through to the next one.         *)

MaxTriggers == 2       \* forwards of one request that end in an escalation

Stages ==
    <<"parse", "resolve", "cache", "budget", "anomaly", "downgrade", "classify",
      "route", "cooldown", "auth", "forward", "post", "escalate">>

stageIndex(name) == CHOOSE i \in 1..Len(Stages) : Stages[i] = name

\* what the collaborators of the stages answer for one request
PipelineRequests ==
    [malformed : BOOLEAN, cached : BOOLEAN, blocked : BOOLEAN,
     allCooled : BOOLEAN, credential : BOOLEAN, triggers : 0..MaxTriggers]

NoResponse == [status |-> 0, body |-> "none"]

\* a variant in which a HIT is noted and the request goes on
shortCircuitNotOnHit(stage, r) ==
    CASE stage = "parse" /\ r.malformed -> [status |-> 400, body |-> "error"]
      [] stage = "budget" /\ r.blocked -> [status |-> 402, body |-> "block error"]
      [] stage = "cooldown" /\ r.allCooled -> [status |-> 503, body |-> "error"]
      [] stage = "auth" /\ ~r.credential -> [status |-> 401, body |-> "error"]
      [] OTHER -> NoResponse

\* the short-circuit column of the stage table
shortCircuit(stage, r) ==
    CASE stage = "parse" /\ r.malformed -> [status |-> 400, body |-> "error"]
      [] stage = "cache" /\ r.cached -> [status |-> 200, body |-> "cached body"]
      [] stage = "budget" /\ r.blocked -> [status |-> 402, body |-> "block error"]
      [] stage = "cooldown" /\ r.allCooled -> [status |-> 503, body |-> "error"]
      [] stage = "auth" /\ ~r.credential -> [status |-> 401, body |-> "error"]
      [] OTHER -> NoResponse

\* the request is answered: no stage runs after this
respond(response, by) ==
    [stage |-> 0, status |-> response.status, body |-> response.body,
     by |-> by, upstream |-> pipe.upstream]

\* a stage before Forward runs: it short-circuits or falls through
PipelineStage ==
    /\ pipe.stage \in 1..(stageIndex("forward") - 1)
    /\ LET response == shortCircuit(Stages[pipe.stage], request)
       IN  pipeline' = [pipeline EXCEPT
              !.pipe = IF response # NoResponse
                       THEN respond(response, Stages[pipe.stage])
                       ELSE [pipe EXCEPT !.stage = @ + 1]]
    /\ UNCHANGED notPipeline

\* Forward: the upstream HTTP client sends the request to the provider
PipelineForward ==
    /\ pipe.stage = stageIndex("forward")
    /\ pipeline' = [pipeline EXCEPT
          !.pipe = [pipe EXCEPT !.stage = @ + 1, !.upstream = @ + 1,
                                !.body = "upstream body"]]
    /\ UNCHANGED notPipeline

\* Response post-process: cache insert, budget record, anomaly record, alerts
PipelinePostProcess ==
    /\ pipe.stage = stageIndex("post")
    /\ pipeline' = [pipeline EXCEPT !.pipe.stage = @ + 1]
    /\ UNCHANGED notPipeline

\* Cascade escalation: re-enter Forward with the next model, or answer
PipelineEscalate ==
    /\ pipe.stage = stageIndex("escalate")
    /\ pipeline' = [pipeline EXCEPT
          !.pipe = IF pipe.upstream <= request.triggers
                   THEN [pipe EXCEPT !.stage = stageIndex("forward")]
                   ELSE respond([status |-> 200, body |-> pipe.body], "")]
    /\ UNCHANGED notPipeline

PipelineStart ==
    /\ CoreIdle
    /\ ConfigIdle /\ CooldownIdle /\ CascadeIdle /\ LimiterIdle /\ MeshIdle
    /\ pipeline \in
          [ request : PipelineRequests,
            pipe : {[stage |-> 1, status |-> 0, body |-> "none", by |-> "",
                     upstream |-> 0]} ]

PipelineNext ==
    \/ PipelineStage
    \/ PipelineForward
    \/ PipelinePostProcess
    \/ PipelineEscalate

PipelineSpec == PipelineStart /\ [][PipelineNext]_vars

----------------------------------------------------------------------------
(* Properties of the pipeline *)

Answered == pipe.stage = 0

\* C26: a request that a stage before Forward short-circuits causes no
\* upstream provider call: a cache HIT is answered with the cached body and a
\* budget block with the block error, each with zero upstream requests.
C26_ShortCircuitMakesNoUpstreamCall ==
    /\ (Answered /\ pipe.by # "") => pipe.upstream = 0
    /\ (request.cached /\ ~request.malformed /\ Answered) =>
          /\ pipe.body = "cached body" /\ pipe.status = 200
          /\ pipe.by = "cache" /\ pipe.upstream = 0
    /\ (request.blocked /\ ~request.cached /\ ~request.malformed /\ Answered) =>
          /\ pipe.body = "block error" /\ pipe.status = 402
          /\ pipe.by = "budget" /\ pipe.upstream = 0

\* a request over budget, with nothing in the cache for it, has been answered
C26_Witness ==
    /\ Answered
    /\ pipe.by = "budget"
    /\ ~request.cached

----------------------------------------------------------------------------
(* RateLimiter (src/unnamed/part_009)                                       *)
(*                                                                          *)
(* A model name is the sequence of its characters, so that includes() is    *)
(* computed on it as String.prototype.includes computes it.                 *)

MaxCalls == 11             \* checkLimit calls counted in one minute
MaxLimNow == 360000        \* the clock of the limiter runs over 0..MaxLimNow
LimiterWindowMs == 60000   \* windowMs, and the divisor of getCurrentMinute
CLEANUP_INTERVAL == 300000
OpusRpm == 10              \* "Opus models: 10 requests per minute"

\* the entries of DEFAULT_LIMITS, in the order of Object.entries
DEFAULT_LIMITS ==
    <<[key |-> <<"c", "l", "a", "u", "d", "e", "-", "o", "p", "u", "s", "-", "4", "-", "6">>,
       rpm |-> 10],
      [key |-> <<"c", "l", "a", "u", "d", "e", "-", "o", "p", "u", "s">>,
       rpm |-> 10],
      [key |-> <<"c", "l", "a", "u", "d", "e", "-", "s", "o", "n", "n", "e", "t", "-", "4", "-", "6">>,
       rpm |-> 30],
      [key |-> <<"c", "l", "a", "u", "d", "e", "-", "h", "a", "i", "k", "u", "-", "4", "-", "5">>,
       rpm |-> 60],
      [key |-> <<"g", "p", "t", "-", "4", "o">>,
       rpm |-> 30],
      [key |-> <<"g", "p", "t", "-", "4">>,
       rpm |-> 20],
      [key |-> <<"o", "1">>,
       rpm |-> 10],
      [key |-> <<"o", "3", "-", "m", "i", "n", "i">>,
       rpm |-> 30],
      [key |-> <<"d", "e", "f", "a", "u", "l", "t">>,
       rpm |-> 60]>>

DefaultLimit == DEFAULT_LIMITS[Len(DEFAULT_LIMITS)]

\* the models checkLimit is called with
ClaudeOpus46 == <<"c", "l", "a", "u", "d", "e", "-", "o", "p", "u", "s", "-", "4", "-", "6">>
Claude3Opus ==
    <<"c", "l", "a", "u", "d", "e", "-", "3", "-", "o", "p", "u", "s", "-", "2", "0", "2", "4", "0", "2", "2", "9">>
OpenAiO1 == <<"o", "p", "e", "n", "a", "i", "/", "o", "1">>
MistralLarge == <<"M", "i", "s", "t", "r", "a", "l", "-", "L", "a", "r", "g", "e">>
LimiterModels == {ClaudeOpus46, Claude3Opus, OpenAiO1, MistralLarge}
Workspaces == {"ws"}

UpperCase ==
    <<"A", "B", "C", "D", "E", "F", "G", "H", "I", "J", "K", "L", "M",
      "N", "O", "P", "Q", "R", "S", "T", "U", "V", "W", "X", "Y", "Z">>
LowerCase ==
    <<"a", "b", "c", "d", "e", "f", "g", "h", "i", "j", "k", "l", "m",
      "n", "o", "p", "q", "r", "s", "t", "u", "v", "w", "x", "y", "z">>
Digits == {"0", "1", "2", "3", "4", "5", "6", "7", "8", "9"}

toLowerCase(str) ==
    [i \in 1..Len(str) |->
        IF \E j \in 1..26 : UpperCase[j] = str[i]
        THEN LowerCase[CHOOSE j \in 1..26 : UpperCase[j] = str[i]]
        ELSE str[i]]

\* model.toLowerCase().replace(/[^a-z0-9-]/g, '')
normalizeModel(model) ==
    SelectSeq(toLowerCase(model),
              LAMBDA c : \/ \E j \in 1..26 : LowerCase[j] = c
                         \/ c \in Digits \cup {"-"})

\* hay.includes(needle)
includes(hay, needle) ==
    \E i \in 0..(Len(hay) - Len(needle)) :
        SubSeq(hay, i + 1, i + Len(needle)) = needle

\* getConfig: the exact match, then the first partial match, then the default
getConfig(model) ==
    LET normalized == normalizeModel(model)
        exact == { i \in 1..Len(DEFAULT_LIMITS) : DEFAULT_LIMITS[i].key = normalized }
        partial == { i \in 1..Len(DEFAULT_LIMITS) :
                       \/ includes(normalized, DEFAULT_LIMITS[i].key)
                       \/ includes(DEFAULT_LIMITS[i].key, normalized) }
        least(S) == CHOOSE i \in S : \A j \in S : i <= j
    IN  IF exact # {} THEN DEFAULT_LIMITS[least(exact)]
        ELSE IF partial # {} THEN DEFAULT_LIMITS[least(partial)]
        ELSE DefaultLimit

getModelKey(model) ==
    LET normalized == toLowerCase(model)
    IN  IF includes(normalized, <<"o", "p", "u", "s">>) THEN "opus"
        ELSE IF includes(normalized, <<"s", "o", "n", "n", "e", "t">>) THEN "sonnet"
        ELSE IF includes(normalized, <<"h", "a", "i", "k", "u">>) THEN "haiku"
        ELSE IF includes(normalized, <<"g", "p", "t", "-", "4", "o">>) THEN "gpt-4o"
        ELSE IF includes(normalized, <<"g", "p", "t", "-", "4">>) THEN "gpt-4"
        ELSE IF includes(normalized, <<"o", "1">>) THEN "o1"
        ELSE "default"

getCurrentMinute(t) == (t \div LimiterWindowMs) * LimiterWindowMs

\* maybeCleanup: the buckets and lastCleanup it leaves
maybeCleanup(t) ==
    IF t - lastCleanup < CLEANUP_INTERVAL
    THEN [buckets |-> rateBuckets, lastCleanup |-> lastCleanup]
    ELSE [buckets |->
            [k \in { k \in DOMAIN rateBuckets :
                       ~(t > rateBuckets[k].resetAt + LimiterWindowMs) }
               |-> rateBuckets[k]],
          lastCleanup |-> t]

\* the history key of a call
GrantKey(workspace, model) ==
    [workspace |-> workspace, model |-> model, minute |-> getCurrentMinute(limNow)]

Granted(k) == IF k \in DOMAIN granted THEN granted[k] ELSE 0

RECURSIVE SumCounted(_)
SumCounted(keys) ==
    IF keys = {} THEN 0
    ELSE LET k == CHOOSE k \in keys : TRUE
         IN  rateBuckets[k].count + SumCounted(keys \ {k})

\* the calls counted in the buckets of the current minute
CountedNow ==
    SumCounted({ k \in DOMAIN rateBuckets : k.minute = getCurrentMinute(limNow) })

CheckLimit(workspace, model) ==
    LET cleaned == maybeCleanup(limNow)
        cfg == getConfig(model)
        key == [workspace |-> workspace, modelKey |-> getModelKey(model),
                minute |-> getCurrentMinute(limNow)]
        resetAt == getCurrentMinute(limNow) + LimiterWindowMs
        found == IF key \in DOMAIN cleaned.buckets THEN cleaned.buckets[key]
                 ELSE [count |-> 0, resetAt |-> resetAt]
        entry == IF limNow > found.resetAt
                 THEN [count |-> 0, resetAt |-> resetAt] ELSE found
        allowed == entry.count < cfg.rpm
        gk == GrantKey(workspace, model)
    IN  /\ CountedNow < MaxCalls
        /\ limiter' = [limiter EXCEPT
              !.rateBuckets = With(cleaned.buckets, key,
                                   IF allowed THEN [entry EXCEPT !.count = @ + 1]
                                   ELSE entry),
              !.lastCleanup = cleaned.lastCleanup,
              !.granted = IF allowed THEN With(granted, gk, Granted(gk) + 1)
                          ELSE granted,
              !.lret = [op |-> "checkLimit", allowed |-> allowed, key |-> key,
                        remaining |-> IF cfg.rpm - entry.count > 0
                                      THEN cfg.rpm - entry.count ELSE 0,
                        limit |-> cfg.rpm, before |-> entry.count]]
        /\ UNCHANGED notLimiter

\* resetLimit(workspaceId, model): the buckets of the model's key are deleted
ResetLimit(workspace, model) ==
    /\ LET kept == [k \in { k \in DOMAIN rateBuckets :
                               ~(k.workspace = workspace
                                 /\ k.modelKey = getModelKey(model)) }
                     |-> rateBuckets[k]]
       IN  /\ kept # rateBuckets
           /\ limiter' = [limiter EXCEPT
                 !.rateBuckets = kept,
                 !.granted = [k \in { k \in DOMAIN granted :
                                 ~(k.workspace = workspace
                                   /\ getModelKey(k.model) = getModelKey(model)) }
                              |-> granted[k]],
                 !.lret = [op |-> "resetLimit"]]
    /\ UNCHANGED notLimiter

\* time passes, to the minute that lies one cleanup interval ahead; the
\* history starts again with the new minute
LimiterTick ==
    /\ limNow + LimiterWindowMs + CLEANUP_INTERVAL <= MaxLimNow
    /\ limiter' = [limiter EXCEPT
          !.limNow = limNow + LimiterWindowMs + CLEANUP_INTERVAL,
          !.granted = NoRows,
          !.lret = [op |-> "tick"]]
    /\ UNCHANGED notLimiter

LimiterStart ==
    /\ CoreIdle
    /\ ConfigIdle /\ CooldownIdle /\ CascadeIdle /\ PipelineIdle /\ MeshIdle
    /\ limiter = [ rateBuckets |-> NoRows, lastCleanup |-> 0, limNow |-> 0,
                   lret |-> [op |-> "new"], granted |-> NoRows ]

LimiterNext ==
    \/ \E w \in Workspaces, m \in LimiterModels : CheckLimit(w, m)
    \/ \E w \in Workspaces, m \in {Claude3Opus} : ResetLimit(w, m)
    \/ LimiterTick

LimiterSpec == LimiterStart /\ [][LimiterNext]_vars

----------------------------------------------------------------------------
(* Properties of the rate limiter *)

\* C27: for each workspace and each one-minute window, the calls of checkLimit
\* answered allowed=true number at most 10 for an Opus model and at most the
\* model's configured requests per minute for any other model; a call
\* answered allowed=false consumes no quota.
C27_AllowedWithinRpm ==
    /\ \A k \in DOMAIN granted :
          granted[k] <= IF getModelKey(k.model) = "opus" THEN OpusRpm
                        ELSE getConfig(k.model).rpm
    /\ (lret.op = "checkLimit" /\ ~lret.allowed) =>
          rateBuckets[lret.key].count = lret.before

----------------------------------------------------------------------------
(* The knowledge mesh: capture and push (src/src/mesh/sync.ts,              *)
(* src/src/telemetry-pg.ts, src/unnamed/part_007)                           *)
(*                                                                          *)
(* An atom is its id.  A sync is one call of doSync; it is started by the   *)
(* interval timer of MeshSyncManager or by forceSync, and nothing keeps a   *)
(* second call from starting while the POST of the first is in flight.      *)

MaxAtoms == 3          \* atoms captured in one run

Callers == {"timer", "forced"}   \* setInterval(() => this.doSync()), forceSync()

NoSync == [pc |-> "idle", toSync |-> {}]

\* SELECT * FROM atoms WHERE synced = 0
getUnsynced(table) == { id \in DOMAIN table : ~table[id] }

\* UPDATE atoms SET synced = 1 WHERE id = ?, for each id
markSynced(table, ids) ==
    [id \in DOMAIN table |-> IF id \in ids THEN TRUE ELSE table[id]]

\* captureRequest: store.insert of a new atom, synced: false
MeshCapture ==
    /\ Cardinality(DOMAIN atoms) < MaxAtoms
    /\ mesh' = [mesh EXCEPT
          !.atoms = With(atoms, Cardinality(DOMAIN atoms) + 1, FALSE),
          !.accepted = With(accepted, Cardinality(DOMAIN atoms) + 1, 0)]
    /\ UNCHANGED notMesh

\* doSync -> syncWithMesh -> pushToMesh up to its await: the unsynced atoms
\* are read, and POSTed when there are any
SyncStarts(caller) ==
    /\ syncs[caller].pc = "idle"
    /\ getUnsynced(atoms) # {}
    /\ mesh' = [mesh EXCEPT
          !.syncs[caller] = [pc |-> "posted", toSync |-> getUnsynced(atoms)]]
    /\ UNCHANGED notMesh

\* the POST settles: with res.ok the endpoint has accepted the batch and the
\* atoms that were read are marked; a refusal or a transport error marks none
PushSettles(caller, ok) ==
    /\ syncs[caller].pc = "posted"
    /\ LET toSync == syncs[caller].toSync
       IN  mesh' = [mesh EXCEPT
              !.syncs[caller] = NoSync,
              !.atoms = IF ok THEN markSynced(atoms, toSync) ELSE atoms,
              !.accepted = IF ok
                           THEN [id \in DOMAIN accepted |->
                                    IF id \in toSync THEN accepted[id] + 1
                                    ELSE accepted[id]]
                           ELSE accepted]
    /\ UNCHANGED notMesh

MeshStart ==
    /\ CoreIdle
    /\ ConfigIdle /\ CooldownIdle /\ CascadeIdle /\ PipelineIdle /\ LimiterIdle
    /\ mesh = [ atoms |-> NoRows, syncs |-> [c \in Callers |-> NoSync],
                accepted |-> NoRows ]

MeshNext ==
    \/ MeshCapture
    \/ \E c \in Callers : SyncStarts(c)
    \/ \E c \in Callers, ok \in BOOLEAN : PushSettles(c, ok)

MeshSpec == MeshStart /\ [][MeshNext]_vars

----------------------------------------------------------------------------
(* Properties of the knowledge mesh *)

\* C40: every locally captured atom is delivered to the mesh in at most one
\* successful push, also when a timer-driven sync and a forced sync overlap,
\* and an atom is marked synced only after a push containing it was accepted.
C40_AtomPushedAtMostOnce ==
    \A id \in DOMAIN atoms :
        /\ accepted[id] <= 1
        /\ atoms[id] => accepted[id] >= 1

====
